---- MODULE Spec2Model ----
(***************************************************************************)
(* Model of the Condish.ai extraction layer (api/damage_analyzer.py,       *)
(* api/floor_plan.py, api/lease_agent.py) and of the request handlers and  *)
(* in-memory stores of api/server.py.                                      *)
(*                                                                         *)
(* Text is modelled by TLA+ strings, character by character.  A TLA+       *)
(* string literal cannot hold the backtick character, so the backtick is   *)
(* written "~" throughout (BT); no modelled text uses "~" otherwise.       *)
(* Python values are tagged records [t, v]: "obj" (dict: a function from   *)
(* keys to values), "list", "str", "num", "bool", "null".                  *)
(***************************************************************************)
EXTENDS Integers, Sequences, FiniteSets, TLC

(***************************************************************************)
(* Python values                                                           *)
(***************************************************************************)
JNull == [t |-> "null", v |-> 0]
JNum(n) == [t |-> "num", v |-> n]
JStr(s) == [t |-> "str", v |-> s]
JBool(b) == [t |-> "bool", v |-> b]
JList(q) == [t |-> "list", v |-> q]
JObj(f) == [t |-> "obj", v |-> f]
EmptyDict == [k \in {} |-> JNull]

\* d[key] = value on a dict's key->value function
set_item(f, key, value) ==
    [k \in (DOMAIN f) \cup {key} |-> IF k = key THEN value ELSE f[k]]

\* d.get(key, default) on a dict's key->value function
dict_get(f, key, default) ==
    IF key \in DOMAIN f THEN f[key] ELSE default

\* Python truthiness of a value
truthy(x) ==
    CASE x.t = "null" -> FALSE
      [] x.t = "bool" -> x.v
      [] x.t = "num" -> x.v # 0
      [] x.t = "str" -> x.v # ""
      [] x.t = "list" -> x.v # <<>>
      [] x.t = "obj" -> DOMAIN x.v # {}

(***************************************************************************)
(* str methods used by the extraction code                                 *)
(***************************************************************************)
BT == "~"
FENCE == BT \o BT \o BT

\* s[lo-1:hi], the slice of s from index lo to index hi (counted from 1), clamped
str_slice(s, lo, hi) ==
    LET a == IF lo < 1 THEN 1 ELSE lo
        b == IF hi > Len(s) THEN Len(s) ELSE hi
    IN IF a > b THEN "" ELSE SubSeq(s, a, b)

char_at(s, i) == str_slice(s, i, i)

StrWhitespace == {" ", "\n", "\t", "\r"}

startswith(s, prefix) ==
    /\ Len(s) >= Len(prefix)
    /\ str_slice(s, 1, Len(prefix)) = prefix

\* sub in s
str_in(sub, s) ==
    \E i \in 1..(Len(s) - Len(sub) + 1) : str_slice(s, i, i + Len(sub) - 1) = sub

\* s.find(sub) counted from 1; 0 when sub does not occur
str_find(s, sub) ==
    IF str_in(sub, s)
    THEN CHOOSE i \in 1..(Len(s) - Len(sub) + 1) :
            /\ str_slice(s, i, i + Len(sub) - 1) = sub
            /\ \A j \in 1..(i - 1) : str_slice(s, j, j + Len(sub) - 1) # sub
    ELSE 0

RECURSIVE str_split(_, _)
\* s.split(sep): the list of the pieces between occurrences of sep
str_split(s, sep) ==
    LET i == str_find(s, sep) IN
    IF i = 0 THEN <<s>>
    ELSE <<str_slice(s, 1, i - 1)>> \o str_split(str_slice(s, i + Len(sep), Len(s)), sep)

\* s.strip()
str_strip(s) ==
    LET keep == {i \in 1..Len(s) : char_at(s, i) \notin StrWhitespace} IN
    IF keep = {} THEN ""
    ELSE LET lo == CHOOSE i \in keep : \A j \in keep : i <= j
             hi == CHOOSE i \in keep : \A j \in keep : i >= j
         IN str_slice(s, lo, hi)

UpperCase == "ABCDEFGHIJKLMNOPQRSTUVWXYZ"
LowerCase == "abcdefghijklmnopqrstuvwxyz"

lower_char(c) ==
    IF str_in(c, UpperCase) THEN char_at(LowerCase, str_find(UpperCase, c)) ELSE c

RECURSIVE str_lower(_)
\* s.lower()
str_lower(s) ==
    IF s = "" THEN "" ELSE lower_char(char_at(s, 1)) \o str_lower(str_slice(s, 2, Len(s)))

(***************************************************************************)
(* json.loads: objects, arrays, strings with the escapes \" \\ \/ \n \t \r,*)
(* integers, and the literals null, true, false.  The modelled texts hold  *)
(* no fraction, exponent, \u escape, NaN or Infinity.                      *)
(***************************************************************************)
JsonWhitespace == {" ", "\t", "\n", "\r"}
Digits == "0123456789"
ParseFail == [ok |-> FALSE, val |-> JNull, pos |-> 0]
ParseOk(x, p) == [ok |-> TRUE, val |-> x, pos |-> p]

\* the first index >= i of s that holds no JSON whitespace (Len(s)+1 at the end)
skip_ws(s, i) ==
    CHOOSE j \in i..(Len(s) + 1) :
        /\ \A k \in i..(j - 1) : char_at(s, k) \in JsonWhitespace
        /\ j = Len(s) + 1 \/ char_at(s, j) \notin JsonWhitespace

digit_val(c) == str_find(Digits, c) - 1

RECURSIVE int_val(_)
int_val(ds) ==
    IF ds = "" THEN 0
    ELSE 10 * int_val(str_slice(ds, 1, Len(ds) - 1)) + digit_val(char_at(ds, Len(ds)))

\* the end of the run of digits that starts at i (i - 1 when there is none)
digits_end(s, i) ==
    CHOOSE j \in (i - 1)..Len(s) :
        /\ \A k \in i..j : str_in(char_at(s, k), Digits)
        /\ j = Len(s) \/ ~ str_in(char_at(s, j + 1), Digits)

\* NUMBER_RE, integer part: -?(0|[1-9][0-9]*)
parse_number(s, i) ==
    LET neg == char_at(s, i) = "-"
        b == IF neg THEN i + 1 ELSE i
        e == IF b <= Len(s) /\ char_at(s, b) = "0" THEN b ELSE digits_end(s, b)
    IN IF e < b THEN ParseFail
       ELSE ParseOk(JNum((IF neg THEN -1 ELSE 1) * int_val(str_slice(s, b, e))), e + 1)

unescape(c) ==
    CASE c = "n" -> "\n"
      [] c = "t" -> "\t"
      [] c = "r" -> "\r"
      [] OTHER -> c

RECURSIVE scan_string(_, _, _)
\* py_scanstring from the index after the opening quote, strict mode
scan_string(s, i, acc) ==
    IF i > Len(s) THEN ParseFail
    ELSE LET c == char_at(s, i) IN
         IF c = "\"" THEN ParseOk(JStr(acc), i + 1)
         ELSE IF c \in {"\n", "\t", "\r"} THEN ParseFail
         ELSE IF c = "\\"
              THEN IF i + 1 <= Len(s) /\ char_at(s, i + 1) \in {"\"", "\\", "/", "n", "t", "r"}
                   THEN scan_string(s, i + 2, acc \o unescape(char_at(s, i + 1)))
                   ELSE ParseFail
         ELSE scan_string(s, i + 1, acc \o c)

RECURSIVE scan_once(_, _)
RECURSIVE parse_members(_, _, _)
RECURSIVE parse_elements(_, _, _)

\* JSONObject: i is the index of a key's opening quote, f the pairs so far
parse_members(s, i, f) ==
    IF i > Len(s) \/ char_at(s, i) # "\"" THEN ParseFail
    ELSE LET key == scan_string(s, i + 1, "") IN
         IF ~ key.ok THEN ParseFail
         ELSE LET c == skip_ws(s, key.pos) IN
              IF c > Len(s) \/ char_at(s, c) # ":" THEN ParseFail
              ELSE LET val == scan_once(s, skip_ws(s, c + 1)) IN
                   IF ~ val.ok THEN ParseFail
                   ELSE LET g == set_item(f, key.val.v, val.val)
                            e == skip_ws(s, val.pos)
                        IN IF e > Len(s) THEN ParseFail
                           ELSE IF char_at(s, e) = "}" THEN ParseOk(JObj(g), e + 1)
                           ELSE IF char_at(s, e) # "," THEN ParseFail
                           ELSE parse_members(s, skip_ws(s, e + 1), g)

\* JSONArray: i is the index of the next element, q the elements so far
parse_elements(s, i, q) ==
    LET val == scan_once(s, i) IN
    IF ~ val.ok THEN ParseFail
    ELSE LET e == skip_ws(s, val.pos) IN
         IF e > Len(s) THEN ParseFail
         ELSE IF char_at(s, e) = "]" THEN ParseOk(JList(Append(q, val.val)), e + 1)
         ELSE IF char_at(s, e) # "," THEN ParseFail
         ELSE parse_elements(s, skip_ws(s, e + 1), Append(q, val.val))

\* scanner.py_make_scanner._scan_once
scan_once(s, i) ==
    IF i > Len(s) THEN ParseFail
    ELSE LET c == char_at(s, i) IN
         CASE c = "\"" -> scan_string(s, i + 1, "")
           [] c = "{" ->
                LET j == skip_ws(s, i + 1) IN
                IF j <= Len(s) /\ char_at(s, j) = "}" THEN ParseOk(JObj(EmptyDict), j + 1)
                ELSE parse_members(s, j, EmptyDict)
           [] c = "[" ->
                LET j == skip_ws(s, i + 1) IN
                IF j <= Len(s) /\ char_at(s, j) = "]" THEN ParseOk(JList(<<>>), j + 1)
                ELSE parse_elements(s, j, <<>>)
           [] c = "n" /\ str_slice(s, i, i + 3) = "null" -> ParseOk(JNull, i + 4)
           [] c = "t" /\ str_slice(s, i, i + 3) = "true" -> ParseOk(JBool(TRUE), i + 4)
           [] c = "f" /\ str_slice(s, i, i + 4) = "false" -> ParseOk(JBool(FALSE), i + 5)
           [] OTHER -> parse_number(s, i)

\* json.loads(s): ok = FALSE stands for json.JSONDecodeError
json_loads(s) ==
    LET r == scan_once(s, skip_ws(s, 1)) IN
    IF r.ok /\ skip_ws(s, r.pos) = Len(s) + 1 THEN r ELSE ParseFail

(***************************************************************************)
(* json.dumps(x, indent=2).  A dict to encode is given with its keys in    *)
(* insertion order: [t |-> "items", v |-> <<key, value>> pairs].           *)
(***************************************************************************)
JItems(q) == [t |-> "items", v |-> q]

RECURSIVE to_value(_)
\* the Python value of an ordered tree: a dict for its items
to_value(x) ==
    LET RECURSIVE fill(_, _)
        fill(q, f) == IF q = <<>> THEN f
                      ELSE fill(Tail(q), set_item(f, Head(q)[1], to_value(Head(q)[2])))
        RECURSIVE each(_)
        each(q) == IF q = <<>> THEN <<>> ELSE <<to_value(Head(q))>> \o each(Tail(q))
    IN CASE x.t = "items" -> JObj(fill(x.v, EmptyDict))
         [] x.t = "list" -> JList(each(x.v))
         [] OTHER -> x

RECURSIVE escape_str(_)
\* json.encoder.py_encode_basestring
escape_str(s) ==
    IF s = "" THEN ""
    ELSE LET c == char_at(s, 1)
             e == CASE c = "\"" -> "\\\""
                    [] c = "\\" -> "\\\\"
                    [] c = "\n" -> "\\n"
                    [] c = "\t" -> "\\t"
                    [] c = "\r" -> "\\r"
                    [] OTHER -> c
         IN e \o escape_str(str_slice(s, 2, Len(s)))

RECURSIVE int_str(_)
int_str(n) ==
    IF n < 0 THEN "-" \o int_str(-n)
    ELSE IF n < 10 THEN char_at(Digits, n + 1)
    ELSE int_str(n \div 10) \o char_at(Digits, (n % 10) + 1)

RECURSIVE spaces(_)
spaces(n) == IF n = 0 THEN "" ELSE " " \o spaces(n - 1)

RECURSIVE json_dumps_at(_, _)
\* the text of x at nesting depth level (indent = 2)
json_dumps_at(x, level) ==
    LET RECURSIVE members(_)
        members(q) ==
            LET one == spaces(2 * (level + 1)) \o "\"" \o escape_str(Head(q)[1]) \o "\": "
                          \o json_dumps_at(Head(q)[2], level + 1)
            IN IF Len(q) = 1 THEN one ELSE one \o ",\n" \o members(Tail(q))
        RECURSIVE elements(_)
        elements(q) ==
            LET one == spaces(2 * (level + 1)) \o json_dumps_at(Head(q), level + 1)
            IN IF Len(q) = 1 THEN one ELSE one \o ",\n" \o elements(Tail(q))
    IN CASE x.t = "items" ->
              IF x.v = <<>> THEN "{}"
              ELSE "{\n" \o members(x.v) \o "\n" \o spaces(2 * level) \o "}"
         [] x.t = "list" ->
              IF x.v = <<>> THEN "[]"
              ELSE "[\n" \o elements(x.v) \o "\n" \o spaces(2 * level) \o "]"
         [] x.t = "str" -> "\"" \o escape_str(x.v) \o "\""
         [] x.t = "num" -> int_str(x.v)
         [] x.t = "bool" -> IF x.v THEN "true" ELSE "false"
         [] x.t = "null" -> "null"

json_dumps(x) == json_dumps_at(x, 0)

\* a reply in a markdown code block, with or without the json tag
Wrappings == {"none", "fence", "fence_json"}
wrap_reply(text, wrapping) ==
    CASE wrapping = "none" -> text
      [] wrapping = "fence" -> FENCE \o "\n" \o text \o "\n" \o FENCE
      [] wrapping = "fence_json" -> FENCE \o "json\n" \o text \o "\n" \o FENCE

(***************************************************************************)
(* Model invocation and the stage functions                                *)
(***************************************************************************)
\* what client.aio.models.generate_content gives: response.text, or an exception
ReplyText(s) == [ok |-> TRUE, text |-> s]
ReplyFail(msg) == [ok |-> FALSE, text |-> msg]

\* how a stage function ends: it returns val, or an exception leaves it.
\* path names the branch taken: "structured" (json.loads succeeded),
\* "heuristic" (json.JSONDecodeError handler), "error" (except Exception
\* handler or an early error return), "early" (a return before any model
\* invocation that is no error), "raise" (exception not handled).
Return(x, path) == [kind |-> "return", val |-> x, path |-> path]
Raise(msg) == [kind |-> "raise", val |-> JStr(msg), path |-> "raise"]
NoReturn == [kind |-> "none", val |-> JNull, path |-> "none"]

py_type_name(x) ==
    CASE x.t = "null" -> "NoneType"
      [] x.t = "bool" -> "bool"
      [] x.t = "num" -> "int"
      [] x.t = "str" -> "str"
      [] x.t = "list" -> "list"
      [] x.t = "obj" -> "dict"

\* TypeError of x[key] = value on a value that is no dict
item_assignment_error(x) ==
    IF x.t = "list" THEN "list indices must be integers or slices, not str"
    ELSE "'" \o py_type_name(x) \o "' object does not support item assignment"

\* AttributeError of x.get(...) on a value that is no dict
no_get_error(x) ==
    "'" \o py_type_name(x) \o "' object has no attribute 'get'"

\* the markdown clean-up every stage applies before json.loads
clean_text(raw) ==
    LET stripped == str_strip(raw)
        inner == IF startswith(stripped, FENCE)
                 THEN LET piece == str_split(stripped, FENCE)[2] IN
                      IF startswith(piece, "json") THEN str_slice(piece, 5, Len(piece))
                      ELSE piece
                 ELSE stripped
    IN str_strip(inner)

DamageWords == {"damage", "crack", "hole", "dent", "scratch", "stain",
                "peel", "mold", "water", "broken", "chip", "wear"}

\* has_damage with the two tests joined by "or"
has_damage_either(raw) ==
    LET lowered == str_lower(raw) IN
    \/ \E word \in DamageWords : str_in(word, lowered)
    \/ ~ str_in("no damage", lowered)

\* has_damage with the negation looked up in the text as written
has_damage_as_written(raw) ==
    LET lowered == str_lower(raw) IN
    /\ \E word \in DamageWords : str_in(word, lowered)
    /\ ~ str_in("no damage", raw)

\* damage_found of the JSONDecodeError handler
has_damage(raw) ==
    LET lowered == str_lower(raw) IN
    /\ \E word \in DamageWords : str_in(word, lowered)
    /\ ~ str_in("no damage", lowered)

\* the try block of analyze_damage, from the value json.loads gave on
analyze_damage_try(raw_text, loaded) ==
    IF loaded.ok
    THEN IF loaded.val.t = "obj"
         THEN Return(JObj(set_item(loaded.val.v, "raw_analysis", JStr(raw_text))),
                     "structured")
         ELSE Raise(item_assignment_error(loaded.val))
    ELSE Return(JObj([status |-> JStr(IF has_damage(raw_text)
                                      THEN "damage_found" ELSE "no_damage"),
                      damage_found |-> JBool(has_damage(raw_text)),
                      message |-> JStr(raw_text),
                      raw_analysis |-> JStr(raw_text)]),
                "heuristic")

\* analyze_damage from the model's reply on
analyze_damage(reply) ==
    IF ~ reply.ok THEN Raise(reply.text)
    ELSE analyze_damage_try(reply.text, json_loads(clean_text(reply.text)))

\* the try block of analyze_damage_standalone
analyze_damage_standalone_try(raw_text, loaded) ==
    IF loaded.ok
    THEN IF loaded.val.t = "obj"
         THEN Return(JObj(set_item(loaded.val.v, "raw_analysis", JStr(raw_text))),
                     "structured")
         ELSE Raise(item_assignment_error(loaded.val))
    ELSE Return(JObj([status |-> JStr(IF has_damage(raw_text)
                                      THEN "damage_found" ELSE "no_damage"),
                      damage_found |-> JBool(has_damage(raw_text)),
                      message |-> JStr(raw_text),
                      raw_analysis |-> JStr(raw_text)]),
                "heuristic")

\* analyze_damage_standalone from the model's reply on
analyze_damage_standalone(reply) ==
    IF ~ reply.ok THEN Raise(reply.text)
    ELSE analyze_damage_standalone_try(reply.text, json_loads(clean_text(reply.text)))

\* the except Exception handler of extract_lease_info
extract_lease_info_failed(msg) ==
    Return(JObj([status |-> JStr("error"),
                 message |-> JStr("Document analysis failed: " \o msg)]),
           "error")

\* the try block of extract_lease_info, from the value json.loads gave on
extract_lease_info_try(raw_text, loaded) ==
    IF loaded.ok
    THEN IF loaded.val.t = "obj"
         THEN Return(JObj(set_item(loaded.val.v, "status", JStr("success"))), "structured")
         ELSE extract_lease_info_failed(item_assignment_error(loaded.val))
    ELSE Return(JObj([status |-> JStr("partial"),
                      raw_extraction |-> JStr(raw_text),
                      message |-> JStr("Could not parse structured data, raw extraction provided")]),
                "heuristic")

\* extract_lease_info from the model's reply on
extract_lease_info(reply) ==
    IF ~ reply.ok THEN extract_lease_info_failed(reply.text)
    ELSE extract_lease_info_try(reply.text, json_loads(clean_text(reply.text)))

\* the except Exception handler of parse_floor_plan
parse_floor_plan_failed(msg) ==
    Return(JObj([status |-> JStr("error"), message |-> JStr(msg), rooms |-> JList(<<>>)]),
           "error")

\* the try block of parse_floor_plan
parse_floor_plan_try(raw_text, loaded) ==
    IF loaded.ok
    THEN IF loaded.val.t = "obj"
         THEN Return(JObj(set_item(loaded.val.v, "status", JStr("success"))), "structured")
         ELSE parse_floor_plan_failed(item_assignment_error(loaded.val))
    ELSE Return(JObj([status |-> JStr("success"),
                      raw_analysis |-> JStr(raw_text),
                      rooms |-> JList(<<>>)]),
                "heuristic")

\* parse_floor_plan from the model's reply on
parse_floor_plan(reply) ==
    IF ~ reply.ok THEN parse_floor_plan_failed(reply.text)
    ELSE parse_floor_plan_try(reply.text, json_loads(clean_text(reply.text)))

\* bytes are sequences of byte values
JBytes(b) == [t |-> "bytes", v |-> b]

\* base64.b64encode(data).decode('utf-8'), kept symbolic
b64encode(data) == [t |-> "base64", v |-> data]

\* the except Exception handler of extract_floor_plan_from_document
extract_floor_plan_failed(msg) ==
    Return(JObj([status |-> JStr("error"),
                 message |-> JStr("Floor plan extraction failed: " \o msg)]),
           "error")

\* extract_floor_plan_from_document once floor_plan_info is bound
extract_floor_plan_found(floor_plan_info, path, document_bytes, mime_type) ==
    IF floor_plan_info.t # "obj" THEN extract_floor_plan_failed(no_get_error(floor_plan_info))
    ELSE IF ~ truthy(dict_get(floor_plan_info.v, "has_floor_plan", JNull))
    THEN Return(JObj([status |-> JStr("not_found"),
                      message |-> JStr("No floor plan found in document"),
                      floor_plan_info |-> floor_plan_info]),
                path)
    ELSE Return(JObj([status |-> JStr("success"),
                      floor_plan_found |-> JBool(TRUE),
                      floor_plan_info |-> floor_plan_info,
                      document_base64 |-> b64encode(document_bytes),
                      document_mime_type |-> JStr(mime_type),
                      message |-> JStr("Floor plan identified in document. Use this for 3D generation.")]),
                "structured")

\* the inner try of extract_floor_plan_from_document: a bare except
\* replaces whatever json.loads raised by {"has_floor_plan": False}
extract_floor_plan_try(loaded, document_bytes, mime_type) ==
    IF loaded.ok
    THEN extract_floor_plan_found(loaded.val, "structured", document_bytes, mime_type)
    ELSE extract_floor_plan_found(JObj([has_floor_plan |-> JBool(FALSE)]), "heuristic",
                                  document_bytes, mime_type)

\* extract_floor_plan_from_document from the model's reply on (the API key is set)
extract_floor_plan_from_document(reply, document_bytes, mime_type) ==
    IF ~ reply.ok THEN extract_floor_plan_failed(reply.text)
    ELSE extract_floor_plan_try(json_loads(clean_text(reply.text)), document_bytes, mime_type)

\* extract_floor_plan_from_document when no API key is configured
extract_floor_plan_no_key ==
    Return(JObj([status |-> JStr("error"), message |-> JStr("API key not configured")]),
           "error")

\* process_lease_document once both extractions have returned
process_lease_document(lease_info, floor_plan_result) ==
    LET security_deposit == dict_get(lease_info.v, "security_deposit", JObj(EmptyDict)) IN
    IF security_deposit.t # "obj" THEN Raise(no_get_error(security_deposit))
    ELSE Return(JObj([status |-> JStr("success"),
                      lease_info |-> lease_info,
                      floor_plan |-> floor_plan_result,
                      ready_for_inspection |->
                          dict_get(floor_plan_result.v, "floor_plan_found", JBool(FALSE)),
                      deposit_amount |-> dict_get(security_deposit.v, "amount", JNull),
                      deposit_currency |->
                          dict_get(security_deposit.v, "currency", JStr("USD"))]),
                "structured")

\* the except Exception handler of calculate_deposit_deductions
calculate_deposit_deductions_failed(msg) ==
    Return(JObj([status |-> JStr("error"),
                 message |-> JStr("Deduction calculation failed: " \o msg)]),
           "error")

\* the try block of calculate_deposit_deductions
calculate_deposit_deductions_try(raw_text, loaded) ==
    IF loaded.ok
    THEN IF loaded.val.t = "obj"
         THEN Return(JObj(set_item(loaded.val.v, "status", JStr("success"))), "structured")
         ELSE calculate_deposit_deductions_failed(item_assignment_error(loaded.val))
    ELSE Return(JObj([status |-> JStr("error"),
                      message |-> JStr("Could not calculate deductions"),
                      raw_response |-> JStr(raw_text)]),
                "heuristic")

\* calculate_deposit_deductions from the model's reply on
calculate_deposit_deductions(reply) ==
    IF ~ reply.ok THEN calculate_deposit_deductions_failed(reply.text)
    ELSE calculate_deposit_deductions_try(reply.text, json_loads(clean_text(reply.text)))

\* generate_repair_quote without the test of the damage list
generate_repair_quote_always_asks(damages, currency) == NoReturn

\* generate_repair_quote up to its model invocation: the return for an
\* empty damage list (path "early"), NoReturn when the model is asked
generate_repair_quote_no_damages(damages, currency) ==
    IF ~ truthy(damages)
    THEN Return(JObj([status |-> JStr("no_damages"),
                      message |-> JStr("No damages to quote"),
                      total |-> JNum(0),
                      currency |-> JStr(currency)]),
                "early")
    ELSE NoReturn

\* the try block of generate_repair_quote
generate_repair_quote_try(raw_text, loaded) ==
    IF loaded.ok
    THEN IF loaded.val.t = "obj"
         THEN Return(JObj(set_item(loaded.val.v, "status", JStr("quote_generated"))),
                     "structured")
         ELSE Raise(item_assignment_error(loaded.val))
    ELSE Return(JObj([status |-> JStr("quote_generated"),
                      raw_quote |-> JStr(raw_text),
                      message |-> JStr("Quote generated (see raw_quote)")]),
                "heuristic")

\* generate_repair_quote from the model's reply on; the invocation is
\* outside the try block
generate_repair_quote(reply) ==
    IF ~ reply.ok THEN Raise(reply.text)
    ELSE generate_repair_quote_try(reply.text, json_loads(clean_text(reply.text)))

\* describe_floor_plan_from_document from the model's reply on
describe_floor_plan_from_document(reply) ==
    IF ~ reply.ok
    THEN Return(JObj([status |-> JStr("error"),
                      message |-> JStr("Failed to analyze document: " \o reply.text)]),
                "error")
    ELSE IF str_in("NO_FLOOR_PLAN", reply.text)
    THEN Return(JObj([status |-> JStr("no_floor_plan"),
                      message |-> JStr("No floor plan found in document")]),
                "structured")
    ELSE Return(JObj([status |-> JStr("success"),
                      description |-> JStr(reply.text),
                      has_floor_plan |-> JBool(TRUE)]),
                "structured")

(***************************************************************************)
(* Streaming image generation.  A chunk's first part is a text fragment    *)
(* (data = <<>>) or inline data with a media type (mime_type = "" when the *)
(* model gave none); parts = FALSE is a chunk without candidates or parts. *)
(***************************************************************************)
TextChunk(s) == [parts |-> TRUE, data |-> <<>>, mime_type |-> "", text |-> s]
DataChunk(d, m) == [parts |-> TRUE, data |-> d, mime_type |-> m, text |-> ""]
NoPartsChunk == [parts |-> FALSE, data |-> <<>>, mime_type |-> "", text |-> ""]

StreamOf(chunks) == [ok |-> TRUE, chunks |-> chunks, text |-> ""]
StreamFail(chunks, msg) == [ok |-> FALSE, chunks |-> chunks, text |-> msg]

\* the loop body with "=" for "+=" on text_response
consume_chunk_last_text(chunk, acc) ==
    IF chunk.parts /\ chunk.data # <<>>
    THEN [acc EXCEPT !.generated_image_b64 = b64encode(chunk.data),
                     !.result_mime_type = IF chunk.mime_type # "" THEN chunk.mime_type
                                          ELSE "image/png"]
    ELSE IF chunk.parts /\ chunk.text # ""
    THEN [acc EXCEPT !.text_response = chunk.text]
    ELSE acc

\* the body of the for loop over generate_content_stream, on one chunk;
\* acc holds the three locals
consume_chunk(chunk, acc) ==
    IF chunk.parts /\ chunk.data # <<>>
    THEN [acc EXCEPT !.generated_image_b64 = b64encode(chunk.data),
                     !.result_mime_type = IF chunk.mime_type # "" THEN chunk.mime_type
                                          ELSE "image/png"]
    ELSE IF chunk.parts /\ chunk.text # ""
    THEN [acc EXCEPT !.text_response = acc.text_response \o chunk.text]
    ELSE acc

RECURSIVE consume_chunks(_, _)
\* the for loop over generate_content_stream
consume_chunks(chunks, acc) ==
    IF chunks = <<>> THEN acc
    ELSE consume_chunks(Tail(chunks), consume_chunk(Head(chunks), acc))

StreamStart == [generated_image_b64 |-> JNull, text_response |-> "",
                result_mime_type |-> "image/png"]

\* the except Exception handler around the streaming call; from_pdf tells
\* the PDF branch (text-only prompt) from the image branch
generate_3d_image_failed(msg, from_pdf) ==
    Return(JObj([status |-> JStr("error"),
                 message |-> JStr((IF from_pdf THEN "PDF 3D generation failed: "
                                   ELSE "Image generation failed: ") \o msg)]),
           "error")

\* the statements after the for loop, on the locals acc it left
generate_3d_image_result(acc, from_pdf) ==
    IF acc.generated_image_b64 # JNull
    THEN Return(JObj(
             IF from_pdf
             THEN [status |-> JStr("success"),
                   image_base64 |-> acc.generated_image_b64,
                   mime_type |-> JStr(acc.result_mime_type),
                   description |-> JStr(IF acc.text_response # "" THEN acc.text_response
                                        ELSE "3D visualization generated from PDF"),
                   source |-> JStr("pdf_description")]
             ELSE [status |-> JStr("success"),
                   image_base64 |-> acc.generated_image_b64,
                   mime_type |-> JStr(acc.result_mime_type),
                   description |-> JStr(IF acc.text_response # "" THEN acc.text_response
                                        ELSE "3D visualization generated")]),
           "structured")
    ELSE Return(JObj([status |-> JStr("error"),
                      message |-> JStr(IF from_pdf
                                       THEN "No image generated from PDF description"
                                       ELSE "No image generated"),
                      text_response |-> JStr(acc.text_response)]),
                "error")

\* generate_3d_floor_plan_image from the streaming call on
generate_3d_floor_plan_image(stream, from_pdf) ==
    IF ~ stream.ok THEN generate_3d_image_failed(stream.text, from_pdf)
    ELSE generate_3d_image_result(consume_chunks(stream.chunks, StreamStart), from_pdf)

\* generate_3d_floor_plan_image when no API key is configured
generate_3d_image_no_key ==
    Return(JObj([status |-> JStr("error"),
                 message |-> JStr("API key not set. Get one from https://aistudio.google.com/app/apikey")]),
           "error")

\* detect_mime_type on the leading bytes
detect_mime_type(data) ==
    IF SubSeq(data, 1, IF Len(data) < 4 THEN Len(data) ELSE 4) = <<37, 80, 68, 70>>
    THEN "application/pdf"
    ELSE IF SubSeq(data, 1, IF Len(data) < 8 THEN Len(data) ELSE 8)
                = <<137, 80, 78, 71, 13, 10, 26, 10>>
    THEN "image/png"
    ELSE IF SubSeq(data, 1, IF Len(data) < 2 THEN Len(data) ELSE 2) = <<255, 216>>
    THEN "image/jpeg"
    ELSE IF SubSeq(data, 1, IF Len(data) < 6 THEN Len(data) ELSE 6)
                \in {<<71, 73, 70, 56, 55, 97>>, <<71, 73, 70, 56, 57, 97>>}
    THEN "image/gif"
    ELSE "image/jpeg"

(***************************************************************************)
(* Layout and checklist derivation from parsed floor-plan data             *)
(***************************************************************************)
RECURSIVE str_chars(_)
str_chars(s) == IF s = "" THEN <<>> ELSE <<JStr(char_at(s, 1))>> \o str_chars(str_slice(s, 2, Len(s)))

RECURSIVE set_to_seq(_)
set_to_seq(S) == IF S = {} THEN <<>>
                 ELSE LET x == CHOOSE y \in S : TRUE IN <<JStr(x)>> \o set_to_seq(S \ {x})

\* iter(x): the items a for loop sees, or a TypeError.  A dict yields its
\* keys (the model keeps no key order; the modelled plans put no dict here).
py_iter(x) ==
    CASE x.t = "list" -> [ok |-> TRUE, items |-> x.v, err |-> ""]
      [] x.t = "str" -> [ok |-> TRUE, items |-> str_chars(x.v), err |-> ""]
      [] x.t = "obj" -> [ok |-> TRUE, items |-> set_to_seq(DOMAIN x.v), err |-> ""]
      [] OTHER -> [ok |-> FALSE, items |-> <<>>,
                   err |-> "'" \o py_type_name(x) \o "' object is not iterable"]

\* hash(x) succeeds
hashable(x) == x.t \notin {"list", "obj"}

unhashable_error(x) == "unhashable type: '" \o py_type_name(x) \o "'"

room_colors(type) ==
    CASE type = "living" -> "#4CAF50"
      [] type = "bedroom" -> "#2196F3"
      [] type = "bathroom" -> "#00BCD4"
      [] type = "kitchen" -> "#FF9800"
      [] type = "hallway" -> "#9E9E9E"
      [] type = "other" -> "#607D8B"
      [] OTHER -> "#607D8B"

\* generate_3d_layout
generate_3d_layout(floor_plan_data) ==
    LET rooms == py_iter(dict_get(floor_plan_data.v, "rooms", JList(<<>>)))
        \* the first exception the loop body raises on room, "" when none
        room_error(room) ==
            IF room.t # "obj" THEN no_get_error(room)
            ELSE LET pos == dict_get(room.v, "position", JObj(EmptyDict))
                     type == dict_get(room.v, "type", JStr(""))
                 IN IF type.t # "str"
                    THEN "'" \o py_type_name(type) \o "' object has no attribute 'lower'"
                    ELSE IF ~ hashable(type) THEN unhashable_error(type)
                    ELSE IF pos.t # "obj" THEN no_get_error(pos)
                    ELSE ""
        room_3d(room) ==
            LET pos == dict_get(room.v, "position", JObj(EmptyDict)) IN
            JObj([id |-> dict_get(room.v, "id", JStr("")),
                  name |-> dict_get(room.v, "name", JStr("")),
                  type |-> dict_get(room.v, "type", JStr("other")),
                  color |-> JStr(room_colors(str_lower(dict_get(room.v, "type", JStr("")).v))),
                  geometry |-> JObj([x |-> dict_get(pos.v, "x", JNum(0)),
                                     z |-> dict_get(pos.v, "y", JNum(0)),
                                     width |-> dict_get(pos.v, "width", JNum(10)),
                                     depth |-> dict_get(pos.v, "height", JNum(10))]),
                  inspection_priority |->
                      dict_get(room.v, "inspection_priority", JStr("medium"))])
        bad == {k \in 1..Len(rooms.items) : room_error(rooms.items[k]) # ""}
    IN IF ~ rooms.ok THEN Raise(rooms.err)
       ELSE IF bad # {}
       THEN Raise(room_error(rooms.items[CHOOSE k \in bad : \A j \in bad : k <= j]))
       ELSE Return(JObj([type |-> JStr("3d_floor_plan"),
                         rooms |-> JList([k \in 1..Len(rooms.items) |-> room_3d(rooms.items[k])]),
                         inspection_route |->
                             dict_get(floor_plan_data.v, "inspection_route", JList(<<>>))]),
                   "structured")

SentinelRank == 999

checklist_item(name) == JObj([item |-> JStr(name), checked |-> JBool(FALSE)])

base_items == <<checklist_item("Walls"), checklist_item("Ceiling"), checklist_item("Floor")>>

\* type_items with the bedroom entry a copy of the living entry
type_items_copied(room_type) ==
    CASE room_type = JStr("bathroom") ->
            <<checklist_item("Toilet"), checklist_item("Sink"), checklist_item("Shower")>>
      [] room_type = JStr("kitchen") ->
            <<checklist_item("Cabinets"), checklist_item("Countertops"),
              checklist_item("Appliances")>>
      [] room_type \in {JStr("bedroom"), JStr("living")} ->
            <<checklist_item("Windows"), checklist_item("Outlets")>>
      [] OTHER -> <<>>

type_items(room_type) ==
    CASE room_type = JStr("bathroom") ->
            <<checklist_item("Toilet"), checklist_item("Sink"), checklist_item("Shower")>>
      [] room_type = JStr("kitchen") ->
            <<checklist_item("Cabinets"), checklist_item("Countertops"),
              checklist_item("Appliances")>>
      [] room_type = JStr("bedroom") ->
            <<checklist_item("Windows"), checklist_item("Closet")>>
      [] room_type = JStr("living") ->
            <<checklist_item("Windows"), checklist_item("Outlets")>>
      [] OTHER -> <<>>

\* route_order.get(room_id, 999): {room_id: i for i, room_id in enumerate(route)}
\* keeps, for a repeated identifier, the index of its last occurrence
route_rank(route, room_id) ==
    LET at == {k \in 1..Len(route) : route[k] = room_id} IN
    IF at = {} THEN SentinelRank
    ELSE (CHOOSE k \in at : \A j \in at : k >= j) - 1

RECURSIVE sorted_by_rank(_, _)
\* sorted(rooms, key=rank): stable
sorted_by_rank(rooms, route) ==
    IF rooms = <<>> THEN <<>>
    ELSE LET ranks == {route_rank(route, dict_get(rooms[k].v, "id", JStr(""))) :
                          k \in 1..Len(rooms)}
             least == CHOOSE m \in ranks : \A n \in ranks : m <= n
             first == CHOOSE k \in 1..Len(rooms) :
                        /\ route_rank(route, dict_get(rooms[k].v, "id", JStr(""))) = least
                        /\ \A j \in 1..(k - 1) :
                              route_rank(route, dict_get(rooms[j].v, "id", JStr(""))) # least
             rest == [k \in 1..(Len(rooms) - 1) |->
                         IF k < first THEN rooms[k] ELSE rooms[k + 1]]
         IN <<rooms[first]>> \o sorted_by_rank(rest, route)

\* the navigation block with the inspection begun at the first room
checklist_navigation_started(checklist) ==
    JObj([current_room |-> IF checklist # <<>> THEN checklist[1].v.room_id ELSE JNull,
          next_room |-> IF Len(checklist) > 1 THEN checklist[2].v.room_id ELSE JNull,
          completed_rooms |-> JNum(0),
          total_rooms |-> JNum(Len(checklist))])

\* the "navigation" block of the returned checklist
checklist_navigation(checklist) ==
    JObj([current_room |-> JNull,
          next_room |-> IF checklist # <<>> THEN checklist[1].v.room_id ELSE JNull,
          completed_rooms |-> JNum(0),
          total_rooms |-> JNum(Len(checklist))])

\* create_inspection_checklist
create_inspection_checklist(floor_plan_data) ==
    LET rooms == dict_get(floor_plan_data.v, "rooms", JList(<<>>))
        inspection_route == py_iter(dict_get(floor_plan_data.v, "inspection_route", JList(<<>>)))
        listed == py_iter(rooms)
        \* the first exception raised for room, "" when none
        room_error(room) ==
            IF room.t # "obj" THEN no_get_error(room)
            ELSE IF ~ hashable(dict_get(room.v, "id", JStr("")))
            THEN unhashable_error(dict_get(room.v, "id", JStr("")))
            ELSE IF ~ hashable(dict_get(room.v, "type", JStr("other")))
            THEN unhashable_error(dict_get(room.v, "type", JStr("other")))
            ELSE ""
        entry(room) ==
            JObj([room_id |-> dict_get(room.v, "id", JStr("")),
                  room_name |-> dict_get(room.v, "name", JStr("")),
                  room_type |-> dict_get(room.v, "type", JStr("other")),
                  status |-> JStr("pending"),
                  priority |-> dict_get(room.v, "inspection_priority", JStr("medium")),
                  inspection_items |->
                      JList(base_items \o type_items(dict_get(room.v, "type", JStr("other")))),
                  tips |-> dict_get(room.v, "inspection_tips", JList(<<>>)),
                  damages_found |-> JList(<<>>)])
        bad_route == {k \in 1..Len(inspection_route.items) : ~ hashable(inspection_route.items[k])}
        bad == {k \in 1..Len(listed.items) : room_error(listed.items[k]) # ""}
    IN IF ~ inspection_route.ok THEN Raise(inspection_route.err)
       ELSE IF bad_route # {}
       THEN Raise(unhashable_error(inspection_route.items[CHOOSE k \in bad_route : TRUE]))
       ELSE IF ~ listed.ok THEN Raise(listed.err)
       ELSE IF bad # {}
       THEN Raise(room_error(listed.items[CHOOSE k \in bad : \A j \in bad : k <= j]))
       ELSE LET ordered == sorted_by_rank(listed.items, inspection_route.items)
                checklist == [k \in 1..Len(ordered) |-> entry(ordered[k])]
            IN Return(JObj([status |-> JStr("success"),
                            total_rooms |-> JNum(Len(listed.items)),
                            checklist |-> JList(checklist),
                            navigation |-> checklist_navigation(checklist)]),
                      "structured")

(***************************************************************************)
(* Replies fed to the extraction code                                      *)
(***************************************************************************)
MaxFrags == 3

Fragments == {FENCE, "json", "\n", " ", "{\"a\": 1}", "[1]", "7",
              "No Damage", "crack", "damage", "fine"}

RECURSIVE Concats(_)
Concats(n) ==
    IF n = 0 THEN {""}
    ELSE Concats(n - 1) \cup {a \o b : a \in Concats(n - 1), b \in Fragments}

Texts == Concats(MaxFrags)

Records == {
    JItems(<<>>),
    JItems(<< <<"a", JNum(1)>> >>),
    JItems(<< <<"damage_found", JBool(TRUE)>>, <<"message", JStr("crack in \"wall\"")>> >>),
    JItems(<< <<"status", JStr("wrong_room")>>, <<"damage_found", JBool(FALSE)>> >>),
    JItems(<< <<"raw_analysis", JStr("fine")>> >>),
    JItems(<< <<"note", JStr(FENCE)>> >>),
    JItems(<< <<"rooms", JList(<<JItems(<< <<"id", JStr("r1")>> >>)>>)>>,
              <<"entry_point", JNull>> >>) }

(***************************************************************************)
(* The server: in-memory stores and request handlers (api/server.py).      *)
(* A handler runs from one await of a model invocation to the next without *)
(* interleaving (one event loop); each such segment is one action.         *)
(***************************************************************************)
MaxRequests == 2

Slots == {"s1", "s2"}
\* the project the modelled requests write, and the projects they read
ProjectIds == {"p1"}
ReadIds == {"p1", "p2"}

PdfBytes == <<37, 80, 68, 70, 45>>
PngBytes == <<137, 80, 78, 71, 13, 10, 26, 10>>

\* request.document after base64.b64decode, with request.mime_type
PdfInput == [document_bytes |-> PdfBytes, mime_type |-> "application/pdf"]
PngInput == [document_bytes |-> PngBytes, mime_type |-> "image/png"]
LeaseInputs == {PdfInput}
FloorPlanInputs == {PdfInput, PngInput}

\* request.floor_plan_image after base64.b64decode
FloorPlanImages == {PngBytes}

LeaseRecord == JItems(<< <<"tenant_name", JStr("Ann")>>,
                         <<"security_deposit",
                           JItems(<< <<"amount", JNum(500)>>, <<"currency", JStr("EUR")>> >>)>> >>)
LeaseRecordNoDeposit == JItems(<< <<"tenant_name", JStr("Ann")>>,
                                  <<"security_deposit", JNull>> >>)

LeaseReplies == {ReplyFail("503 UNAVAILABLE"),
                 ReplyText("The deposit is 500 EUR."),
                 ReplyText(wrap_reply(json_dumps(LeaseRecord), "fence_json")),
                 ReplyText(json_dumps(LeaseRecordNoDeposit))}

IdentifyReplies == {ReplyFail("503 UNAVAILABLE"),
                    ReplyText(json_dumps(JItems(<< <<"has_floor_plan", JBool(TRUE)>> >>))),
                    ReplyText(json_dumps(JItems(<< <<"has_floor_plan", JBool(FALSE)>> >>)))}

PlanRecord == JItems(<<
    <<"rooms", JList(<<
        JItems(<< <<"id", JStr("r1")>>, <<"type", JStr("bathroom")>> >>),
        JItems(<< <<"id", JStr("r2")>>, <<"type", JStr("kitchen")>> >>) >>)>>,
    <<"inspection_route", JList(<<JStr("r2"), JStr("r1")>>)>> >>)
PlanRecordNoRooms == JItems(<< <<"rooms", JNull>> >>)

\* the last reply lists a room and gives null for the route
ParseReplies == {ReplyFail("503 UNAVAILABLE"),
                 ReplyText("I see a bathroom and a kitchen."),
                 ReplyText(wrap_reply(json_dumps(PlanRecord), "fence")),
                 ReplyText(json_dumps(PlanRecordNoRooms)),
                 ReplyText(json_dumps(JItems(<<
                     <<"rooms", JList(<<JItems(<< <<"id", JStr("r3")>>,
                                                  <<"type", JStr("bedroom")>> >>)>>)>>,
                     <<"inspection_route", JNull>> >>)))}

DeductionRecord == JItems(<<
    <<"deductions", JList(<<JItems(<< <<"item", JStr("crack")>>,
                                      <<"deduction_amount", JNum(80)>> >>)>>)>>,
    <<"total_deductions", JNum(80)>>,
    <<"deposit_return", JNum(420)>> >>)

DeductionReplies == {ReplyFail("503 UNAVAILABLE"),
                     ReplyText("About 80 EUR should be withheld."),
                     ReplyText(json_dumps(DeductionRecord))}

(***************************************************************************)
(* Floor plans handed to generate_3d_layout and create_inspection_checklist *)
(* run on their own                                                        *)
(***************************************************************************)
RECURSIVE SeqsUpTo(_, _)
\* the sequences over S of length at most n
SeqsUpTo(S, n) ==
    IF n = 0 THEN {<<>>}
    ELSE SeqsUpTo(S, n - 1) \cup
         {Append(q, x) : q \in {p \in SeqsUpTo(S, n - 1) : Len(p) = n - 1}, x \in S}

MaxRooms == 2

\* an inspection route longer than the default rank of an unlisted room:
\* room_1 .. room_<SentinelRank + 2>
LongRoute == [k \in 1..(SentinelRank + 2) |-> JStr("room_" \o int_str(k))]

FloorPlans ==
    LET rooms ==
            {JObj([id |-> JStr("r1"), type |-> JStr("bathroom")]),
             JObj([id |-> JStr("r2"), type |-> JStr("kitchen")]),
             JObj([id |-> JStr("r3"), type |-> JStr("bedroom")]),
             JObj([id |-> JStr("r4"), name |-> JStr("Living Room"), type |-> JStr("living"),
                   inspection_priority |-> JStr("high"),
                   inspection_tips |-> JList(<<JStr("Check corners")>>)]),
             JObj([id |-> JStr("r1"), type |-> JStr("hallway")]),
             JObj([name |-> JStr("Kitchen"), type |-> JStr("Kitchen")]),
             JObj([id |-> LongRoute[SentinelRank + 2], type |-> JStr("bedroom")])}
        routes ==
            {<<>>, <<JStr("r2"), JStr("r1")>>, <<JStr("r3")>>,
             <<JStr("r4"), JStr("r3"), JStr("r0")>>,
             <<JStr("r1"), JStr("r2"), JStr("r1")>>,
             LongRoute}
    IN {JObj([rooms |-> JList(q), inspection_route |-> JList(route)]) :
            q \in SeqsUpTo(rooms, MaxRooms), route \in routes}
       \cup {JObj([rooms |-> JList(q)]) : q \in SeqsUpTo(rooms, MaxRooms)}
       \cup {to_value(PlanRecordNoRooms), JObj([raw_analysis |-> JStr("two rooms"),
                                                rooms |-> JList(<<>>)])}

(***************************************************************************)
(* Chunk sequences of generate_content_stream, for                         *)
(* generate_3d_floor_plan_image run on its own: text fragments, binary     *)
(* fragments with and without a media type, an empty binary fragment, a    *)
(* chunk without parts; the sequence ends, or the stream raises after it   *)
(***************************************************************************)
MaxChunks == 3

ChunkStreams ==
    LET chunks == {TextChunk("a"), TextChunk("b"),
                   DataChunk(<<1>>, "image/jpeg"), DataChunk(<<2>>, ""),
                   DataChunk(<<>>, "image/webp"), NoPartsChunk}
    IN {StreamOf(q) : q \in SeqsUpTo(chunks, MaxChunks)}
       \cup {StreamFail(q, "429 RESOURCE_EXHAUSTED") : q \in SeqsUpTo(chunks, MaxChunks)}

(***************************************************************************)
(* Arguments and replies of the pricing functions (generate_repair_quote,  *)
(* calculate_deposit_deductions) run on their own                          *)
(***************************************************************************)
MaxDamages == 2

\* request.damages
DamageLists ==
    {JList(q) : q \in SeqsUpTo({JObj([type |-> JStr("crack"), severity |-> JStr("minor")]),
                                JObj([type |-> JStr("stain")])},
                               MaxDamages)}

\* replies to the quote prompt: a failed invocation, prose, a list, and
\* quotes (plain or fenced) whose summary adds up, does not add up, or is
\* missing
QuoteReplies ==
    LET lines ==
            << <<"materials", JList(<<JItems(<< <<"name", JStr("paint")>>,
                                                <<"total", JNum(100)>> >>)>>)>>,
               <<"labor", JList(<<JItems(<< <<"task", JStr("painting")>>,
                                            <<"total", JNum(50)>> >>)>>)>> >>
        summary(subtotal, contingency, grand_total) ==
            <<"summary", JItems(<< <<"materials_total", JNum(100)>>,
                                   <<"labor_total", JNum(50)>>,
                                   <<"subtotal", JNum(subtotal)>>,
                                   <<"contingency_10_percent", JNum(contingency)>>,
                                   <<"grand_total", JNum(grand_total)>> >>)>>
        quotes == {JItems(lines \o <<summary(150, 15, 165)>>),
                   JItems(lines \o <<summary(160, 16, 180)>>),
                   JItems(lines)}
    IN {ReplyFail("503 UNAVAILABLE"),
        ReplyText("Repairs will cost about 165 EUR."),
        ReplyText("[1]")}
       \cup {ReplyText(json_dumps(q)) : q \in quotes}
       \cup {ReplyText(wrap_reply(json_dumps(q), "fence_json")) : q \in quotes}

\* replies to the deduction prompt: those of DeductionReplies and
\* breakdowns for a deposit of 500 that add up, carry a wrong total, exceed
\* the deposit, or list nothing
PricingDeductionReplies ==
    LET deduction(item, amount) ==
            JItems(<< <<"item", JStr(item)>>, <<"deduction_amount", JNum(amount)>> >>)
        breakdown(deductions, total_deductions, deposit_return) ==
            JItems(<< <<"original_deposit", JNum(500)>>,
                      <<"deductions", JList(deductions)>>,
                      <<"total_deductions", JNum(total_deductions)>>,
                      <<"deposit_return", JNum(deposit_return)>> >>)
    IN DeductionReplies \cup
       {ReplyText(json_dumps(d)) :
           d \in {breakdown(<<deduction("crack", 80)>>, 80, 420),
                  breakdown(<<deduction("crack", 80), deduction("stain", 40)>>, 100, 400),
                  breakdown(<<deduction("crack", 80), deduction("floor", 600)>>, 680, -180),
                  breakdown(<<>>, 0, 500)}}

DescribeReplies == {ReplyFail("503 UNAVAILABLE"),
                    ReplyText("NO_FLOOR_PLAN: This document does not contain a floor plan."),
                    ReplyText("PROPERTY TYPE: apartment")}

ImageStreams == {StreamFail(<<>>, "429 RESOURCE_EXHAUSTED"),
                 StreamOf(<<TextChunk("I cannot render this.")>>),
                 StreamOf(<<TextChunk("Here it is."), DataChunk(<<1, 2>>, "image/jpeg")>>)}

\* the stage results of the replies above, computed once
LeaseInfoOutcomes ==
    {[reply |-> rp, result |-> extract_lease_info(rp)] : rp \in LeaseReplies}
ParseOutcomes ==
    {[reply |-> p.reply, result |-> p.result,
      layout_3d |-> generate_3d_layout(p.result.val),
      checklist |-> create_inspection_checklist(p.result.val)] :
        p \in {[reply |-> rp, result |-> parse_floor_plan(rp)] : rp \in ParseReplies}}
DeductionOutcomes ==
    {[reply |-> rp, result |-> calculate_deposit_deductions(rp)] : rp \in DeductionReplies}
DescribeOutcomes ==
    {[reply |-> rp, result |-> describe_floor_plan_from_document(rp)] :
        rp \in DescribeReplies}
IdentifyOutcomes ==
    {[reply |-> rp, input |-> input,
      result |-> extract_floor_plan_from_document(rp, input.document_bytes,
                                                  input.mime_type)] :
        rp \in IdentifyReplies, input \in FloorPlanInputs}
ImageOutcomes ==
    {[stream |-> stream, from_pdf |-> from_pdf,
      result |-> generate_3d_floor_plan_image(stream, from_pdf)] :
        stream \in ImageStreams, from_pdf \in BOOLEAN}

VARIABLES raw_text, record, wrapping, fn, ret,
          api_key, projects_db, floor_plans_db, inspection_state_db, req, started,
          plan, damage_list, deposit_paid, invocations, pending, phase, consumed, locals

extract_vars == <<raw_text, record, wrapping, fn, ret>>
store_vars == <<projects_db, floor_plans_db, inspection_state_db>>
server_vars == <<api_key, projects_db, floor_plans_db, inspection_state_db, req, started>>
\* the arguments and progress of one call of a derivation, pricing or
\* streaming function, when that function is run on its own
derived_vars == <<plan, damage_list, deposit_paid, invocations, pending, phase, consumed, locals>>

vars == <<extract_vars, server_vars, derived_vars>>

NoResp == [kind |-> "none", val |-> JNull]
Ok(x) == [kind |-> "ok", val |-> x]
\* raise HTTPException(status_code=500, detail=str(e))
Http500(detail) == [kind |-> "http_500", val |-> detail]

\* one model invocation: the stage that made it and the media type attached
Call(stage, mime_type) == [stage |-> stage, mime_type |-> mime_type]

IdleSlot == [ep |-> "idle", pid |-> "", document_bytes |-> <<>>, mime_type |-> "",
             pc |-> "idle", loc |-> EmptyDict, calls |-> <<>>, resp |-> NoResp,
             patch |-> EmptyDict, conc |-> FALSE]

InFlight(slot) == slot.pc \notin {"idle", "done"}

\* slot r takes a new request in state slot, once the response of its last
\* request has been sent; conc records that two requests were in flight at
\* the same time.  Slots are interchangeable: the second one is taken only
\* while the first is busy.
Begin(r, slot) ==
    /\ ~ InFlight(req[r])
    /\ (r = "s2" => InFlight(req["s1"]))
    /\ started < MaxRequests
    /\ started' = started + 1
    /\ req' = [s \in Slots |->
                 IF s = r
                 THEN [slot EXCEPT !.conc = InFlight(slot)
                                            /\ \E o \in Slots \ {r} : InFlight(req[o])]
                 ELSE IF InFlight(slot) /\ InFlight(req[s])
                 THEN [req[s] EXCEPT !.conc = TRUE]
                 ELSE req[s]]

NewSlot(ep, pid, document_bytes, mime_type, pc, calls) ==
    [IdleSlot EXCEPT !.ep = ep, !.pid = pid, !.document_bytes = document_bytes,
                     !.mime_type = mime_type, !.pc = pc, !.calls = calls]

\* slot r moves to pc with locals loc and one more invocation
Await(r, pc, loc, call) ==
    req' = [req EXCEPT ![r].pc = pc, ![r].loc = loc, ![r].calls = Append(@, call)]

\* slot r ends with response resp after the invocations calls; patch names
\* the fields of the project the handler assigned, with the values assigned
Done(r, resp, patch, calls) ==
    req' = [req EXCEPT ![r].pc = "done", ![r].loc = EmptyDict, ![r].resp = resp,
                       ![r].patch = patch, ![r].calls = @ \o calls]

At(r, ep, pc) == req[r].ep = ep /\ req[r].pc = pc

\* {**a, **b}
dict_merge(a, b) == [k \in (DOMAIN a) \cup (DOMAIN b) |-> IF k \in DOMAIN b THEN b[k] ELSE a[k]]

InputOf(slot) == [document_bytes |-> slot.document_bytes, mime_type |-> slot.mime_type]

\* what get_project returns for project_id
get_project_view(project_id) ==
    LET project == dict_get(projects_db, project_id, JObj(EmptyDict))
        floor_plan == dict_get(floor_plans_db, project_id, JObj(EmptyDict))
        inspection == dict_get(inspection_state_db, project_id, JObj(EmptyDict))
    IN JObj([project_id |-> JStr(project_id),
             lease_info |-> dict_get(project.v, "lease_info", JNull),
             deposit_amount |-> dict_get(project.v, "deposit_amount", JNull),
             deposit_currency |-> dict_get(project.v, "deposit_currency", JNull),
             floor_plan |-> dict_get(floor_plan.v, "data", JNull),
             inspection_checklist |-> inspection,
             deposit_deductions |-> dict_get(project.v, "deposit_deductions", JNull)])

(***************************** /lease/process ******************************)
process_lease_start(r) ==
    /\ \E pid \in ProjectIds, input \in LeaseInputs :
          Begin(r, NewSlot("process_lease_endpoint", pid, input.document_bytes,
                           input.mime_type, "extract_lease_info",
                           <<Call("extract_lease_info", input.mime_type)>>))
    /\ UNCHANGED <<api_key, store_vars>>
    /\ UNCHANGED <<extract_vars, derived_vars>>

\* the return of process_lease_document and the rest of the endpoint
process_lease_finish(r, lease_info, floor_plan_result, calls) ==
    LET result == process_lease_document(lease_info, floor_plan_result)
        stored == [lease_info |-> dict_get(result.val.v, "lease_info", JNull),
                   deposit_amount |-> dict_get(result.val.v, "deposit_amount", JNull),
                   deposit_currency |-> dict_get(result.val.v, "deposit_currency", JNull)]
    IN IF result.kind = "raise"
       THEN /\ Done(r, Http500(result.val), EmptyDict, calls)
            /\ UNCHANGED store_vars
       ELSE /\ projects_db' =
                  set_item(projects_db, req[r].pid,
                           JObj(dict_merge(stored,
                                           [document_bytes |-> JBytes(req[r].document_bytes),
                                            mime_type |-> JStr(req[r].mime_type)])))
            /\ Done(r, Ok(JObj(dict_merge([status |-> JStr("success"),
                                           project_id |-> JStr(req[r].pid)],
                                          result.val.v))),
                    stored, calls)
            /\ UNCHANGED <<floor_plans_db, inspection_state_db>>

process_lease_lease_info(r) ==
    /\ At(r, "process_lease_endpoint", "extract_lease_info")
    /\ \E o \in LeaseInfoOutcomes :
          LET lease_info == o.result.val IN
          IF api_key
          THEN /\ Await(r, "extract_floor_plan_from_document",
                        [lease_info |-> lease_info],
                        Call("extract_floor_plan_from_document", req[r].mime_type))
               /\ UNCHANGED store_vars
          ELSE process_lease_finish(r, lease_info, extract_floor_plan_no_key.val, <<>>)
    /\ UNCHANGED <<api_key, started>>
    /\ UNCHANGED <<extract_vars, derived_vars>>

process_lease_floor_plan(r) ==
    /\ At(r, "process_lease_endpoint", "extract_floor_plan_from_document")
    /\ \E o \in {i \in IdentifyOutcomes : i.input = InputOf(req[r])} :
          process_lease_finish(r, req[r].loc.lease_info, o.result.val, <<>>)
    /\ UNCHANGED <<api_key, started>>
    /\ UNCHANGED <<extract_vars, derived_vars>>

(*************************** /lease/extract-info ***************************)
extract_lease_info_start(r) ==
    /\ \E pid \in ProjectIds, input \in LeaseInputs :
          Begin(r, NewSlot("extract_lease_info_endpoint", pid, input.document_bytes,
                           input.mime_type, "extract_lease_info",
                           <<Call("extract_lease_info", input.mime_type)>>))
    /\ UNCHANGED <<api_key, store_vars>>
    /\ UNCHANGED <<extract_vars, derived_vars>>

extract_lease_info_finish(r) ==
    /\ At(r, "extract_lease_info_endpoint", "extract_lease_info")
    /\ \E o \in LeaseInfoOutcomes :
          LET result == o.result.val
              pid == req[r].pid
              security_deposit == dict_get(result.v, "security_deposit", JNull)
              with_info == set_item(projects_db[pid].v, "lease_info", result)
              deposit == [deposit_amount |-> dict_get(security_deposit.v, "amount", JNull),
                          deposit_currency |->
                              dict_get(security_deposit.v, "currency", JStr("USD"))]
          IN IF pid \notin DOMAIN projects_db
             THEN /\ Done(r, Ok(result), EmptyDict, <<>>)
                  /\ UNCHANGED store_vars
             ELSE IF ~ truthy(security_deposit)
             THEN /\ projects_db' = [projects_db EXCEPT ![pid] = JObj(with_info)]
                  /\ Done(r, Ok(result), [lease_info |-> result], <<>>)
                  /\ UNCHANGED <<floor_plans_db, inspection_state_db>>
             ELSE IF security_deposit.t # "obj"
             THEN /\ projects_db' = [projects_db EXCEPT ![pid] = JObj(with_info)]
                  /\ Done(r, Http500(JStr(no_get_error(security_deposit))),
                          [lease_info |-> result], <<>>)
                  /\ UNCHANGED <<floor_plans_db, inspection_state_db>>
             ELSE /\ projects_db' =
                        [projects_db EXCEPT ![pid] = JObj(dict_merge(with_info, deposit))]
                  /\ Done(r, Ok(result),
                          dict_merge([lease_info |-> result], deposit), <<>>)
                  /\ UNCHANGED <<floor_plans_db, inspection_state_db>>
    /\ UNCHANGED <<api_key, started>>
    /\ UNCHANGED <<extract_vars, derived_vars>>

(************************ /lease/extract-floor-plan ************************)
\* the endpoint from the result of extract_floor_plan_from_document on
extract_floor_plan_store(r, slot, result) ==
    IF truthy(dict_get(result.v, "floor_plan_found", JNull))
    THEN /\ floor_plans_db' =
               set_item(floor_plans_db, slot.pid,
                        JObj([document_bytes |-> JBytes(slot.document_bytes),
                              mime_type |-> JStr(slot.mime_type),
                              floor_plan_info |-> dict_get(result.v, "floor_plan_info", JNull)]))
         /\ UNCHANGED <<projects_db, inspection_state_db>>
    ELSE UNCHANGED store_vars

extract_floor_plan_start(r) ==
    /\ \E pid \in ProjectIds, input \in LeaseInputs :
          LET slot == NewSlot("extract_floor_plan_endpoint", pid, input.document_bytes,
                              input.mime_type, "extract_floor_plan_from_document",
                              <<Call("extract_floor_plan_from_document", input.mime_type)>>)
          IN IF api_key
             THEN /\ Begin(r, slot)
                  /\ UNCHANGED store_vars
             ELSE /\ Begin(r, [slot EXCEPT !.pc = "done", !.calls = <<>>,
                                           !.resp = Ok(extract_floor_plan_no_key.val)])
                  /\ extract_floor_plan_store(r, slot, extract_floor_plan_no_key.val)
    /\ UNCHANGED api_key
    /\ UNCHANGED <<extract_vars, derived_vars>>

extract_floor_plan_finish(r) ==
    /\ At(r, "extract_floor_plan_endpoint", "extract_floor_plan_from_document")
    /\ \E o \in {i \in IdentifyOutcomes : i.input = InputOf(req[r])} :
          LET result == o.result.val IN
          /\ extract_floor_plan_store(r, req[r], result)
          /\ Done(r, Ok(result), EmptyDict, <<>>)
    /\ UNCHANGED <<api_key, started>>
    /\ UNCHANGED <<extract_vars, derived_vars>>

(******************** /lease/generate-3d-from-document *********************)
\* the no_floor_plan return of the endpoint
no_floor_plan_response(floor_plan_check) ==
    Ok(JObj([status |-> JStr("no_floor_plan"),
             message |-> JStr("No floor plan found in the lease document"),
             floor_plan_info |-> dict_get(floor_plan_check.v, "floor_plan_info", JNull)]))

generate_3d_start(r) ==
    /\ \E pid \in ProjectIds, input \in FloorPlanInputs :
          LET slot == NewSlot("generate_3d_from_document_endpoint", pid,
                              input.document_bytes, input.mime_type,
                              "extract_floor_plan_from_document",
                              <<Call("extract_floor_plan_from_document", input.mime_type)>>)
          IN IF api_key
             THEN Begin(r, slot)
             ELSE Begin(r, [slot EXCEPT !.pc = "done", !.calls = <<>>,
                                        !.resp = no_floor_plan_response(
                                                     extract_floor_plan_no_key.val)])
    /\ UNCHANGED <<api_key, store_vars>>
    /\ UNCHANGED <<extract_vars, derived_vars>>

\* generate_3d_from_document_endpoint without the test of floor_plan_found
generate_3d_floor_plan_check_unconditional(r) ==
    /\ At(r, "generate_3d_from_document_endpoint", "extract_floor_plan_from_document")
    /\ \E o \in {i \in IdentifyOutcomes : i.input = InputOf(req[r])} :
          Await(r, "parse_floor_plan", [floor_plan_check |-> o.result.val],
                Call("parse_floor_plan", req[r].mime_type))
    /\ UNCHANGED <<api_key, started, store_vars>>
    /\ UNCHANGED <<extract_vars, derived_vars>>

generate_3d_floor_plan_check(r) ==
    /\ At(r, "generate_3d_from_document_endpoint", "extract_floor_plan_from_document")
    /\ \E o \in {i \in IdentifyOutcomes : i.input = InputOf(req[r])} :
          LET floor_plan_check == o.result.val IN
          IF ~ truthy(dict_get(floor_plan_check.v, "floor_plan_found", JNull))
          THEN Done(r, no_floor_plan_response(floor_plan_check), EmptyDict, <<>>)
          ELSE Await(r, "parse_floor_plan", [floor_plan_check |-> floor_plan_check],
                     Call("parse_floor_plan", req[r].mime_type))
    /\ UNCHANGED <<api_key, started, store_vars>>
    /\ UNCHANGED <<extract_vars, derived_vars>>

\* the success return of the endpoint
generate_3d_response(slot, loc, image_result) ==
    Ok(JObj([status |-> JStr("success"),
             project_id |-> JStr(slot.pid),
             floor_plan |-> loc.floor_plan_data,
             layout_3d |-> loc.layout_3d,
             checklist |-> loc.checklist,
             image_3d |-> image_result,
             floor_plan_info |-> dict_get(loc.floor_plan_check.v, "floor_plan_info", JNull)]))

\* Part.from_bytes(data=floor_plan_image, mime_type=image_mime)
image_mime(mime_type) ==
    IF startswith(mime_type, "image/") THEN mime_type ELSE "image/jpeg"

generate_3d_parsed(r) ==
    /\ At(r, "generate_3d_from_document_endpoint", "parse_floor_plan")
    /\ \E o \in ParseOutcomes :
          LET slot == req[r]
              floor_plan_data == o.result.val
              layout_3d == o.layout_3d
              checklist == o.checklist
              loc == [floor_plan_check |-> slot.loc.floor_plan_check,
                      floor_plan_data |-> floor_plan_data,
                      layout_3d |-> layout_3d.val,
                      checklist |-> checklist.val]
              written == [floor_plan |-> floor_plan_data,
                          inspection_checklist |-> checklist.val]
          IN /\ floor_plans_db' =
                    set_item(floor_plans_db, slot.pid,
                             JObj([data |-> floor_plan_data,
                                   document_bytes |-> JBytes(slot.document_bytes),
                                   mime_type |-> JStr(slot.mime_type)]))
             /\ UNCHANGED projects_db
             /\ IF layout_3d.kind = "raise"
                THEN /\ Done(r, Http500(layout_3d.val), [floor_plan |-> floor_plan_data], <<>>)
                     /\ UNCHANGED inspection_state_db
                ELSE IF checklist.kind = "raise"
                THEN /\ Done(r, Http500(checklist.val), [floor_plan |-> floor_plan_data], <<>>)
                     /\ UNCHANGED inspection_state_db
                ELSE /\ inspection_state_db' =
                           set_item(inspection_state_db, slot.pid, checklist.val)
                     /\ IF ~ api_key
                        THEN Done(r, generate_3d_response(slot, loc,
                                                          generate_3d_image_no_key.val),
                                  written, <<>>)
                        ELSE IF slot.mime_type = "application/pdf"
                        THEN req' = [req EXCEPT
                                        ![r].pc = "describe_floor_plan_from_document",
                                        ![r].loc = loc,
                                        ![r].patch = written,
                                        ![r].calls =
                                            Append(@, Call("describe_floor_plan_from_document",
                                                           slot.mime_type))]
                        ELSE \E im \in {i \in ImageOutcomes : ~ i.from_pdf} :
                                Done(r, generate_3d_response(slot, loc, im.result.val),
                                     written,
                                     <<Call("generate_content_stream",
                                            image_mime(slot.mime_type))>>)
    /\ UNCHANGED <<api_key, started>>
    /\ UNCHANGED <<extract_vars, derived_vars>>

generate_3d_described(r) ==
    /\ At(r, "generate_3d_from_document_endpoint", "describe_floor_plan_from_document")
    /\ \E o \in DescribeOutcomes :
          LET description_result == o.result.val IN
          IF dict_get(description_result.v, "status", JNull) # JStr("success")
          THEN Done(r, generate_3d_response(req[r], req[r].loc, description_result),
                    req[r].patch, <<>>)
          ELSE \E im \in {i \in ImageOutcomes : i.from_pdf} :
                  Done(r, generate_3d_response(req[r], req[r].loc, im.result.val),
                       req[r].patch, <<Call("generate_content_stream", "")>>)
    /\ UNCHANGED <<api_key, started, store_vars>>
    /\ UNCHANGED <<extract_vars, derived_vars>>

(**************************** /floor-plan/parse ****************************)
parse_floor_plan_start(r) ==
    /\ \E pid \in ProjectIds, image \in FloorPlanImages :
          Begin(r, NewSlot("parse_floor_plan_endpoint", pid, image, "", "parse_floor_plan",
                           <<Call("parse_floor_plan", detect_mime_type(image))>>))
    /\ UNCHANGED <<api_key, store_vars>>
    /\ UNCHANGED <<extract_vars, derived_vars>>

parse_floor_plan_finish(r) ==
    /\ At(r, "parse_floor_plan_endpoint", "parse_floor_plan")
    /\ \E o \in ParseOutcomes :
          LET slot == req[r]
              floor_plan_data == o.result.val
              layout_3d == o.layout_3d
              checklist == o.checklist
          IN /\ floor_plans_db' =
                    set_item(floor_plans_db, slot.pid,
                             JObj([data |-> floor_plan_data,
                                   image_bytes |-> JBytes(slot.document_bytes)]))
             /\ UNCHANGED projects_db
             /\ IF layout_3d.kind = "raise"
                THEN /\ Done(r, Http500(layout_3d.val), [floor_plan |-> floor_plan_data], <<>>)
                     /\ UNCHANGED inspection_state_db
                ELSE IF checklist.kind = "raise"
                THEN /\ Done(r, Http500(checklist.val), [floor_plan |-> floor_plan_data], <<>>)
                     /\ UNCHANGED inspection_state_db
                ELSE /\ inspection_state_db' =
                           set_item(inspection_state_db, slot.pid, checklist.val)
                     /\ Done(r, Ok(JObj([status |-> JStr("success"),
                                         project_id |-> JStr(slot.pid),
                                         floor_plan |-> floor_plan_data,
                                         layout_3d |-> layout_3d.val,
                                         checklist |-> checklist.val])),
                             [floor_plan |-> floor_plan_data,
                              inspection_checklist |-> checklist.val], <<>>)
    /\ UNCHANGED <<api_key, started>>
    /\ UNCHANGED <<extract_vars, derived_vars>>

(**************************** /deposit/calculate ***************************)
calculate_deductions_start(r) ==
    /\ \E pid \in ProjectIds :
          Begin(r, NewSlot("calculate_deductions_endpoint", pid, <<>>, "",
                           "calculate_deposit_deductions",
                           <<Call("calculate_deposit_deductions", "")>>))
    /\ UNCHANGED <<api_key, store_vars>>
    /\ UNCHANGED <<extract_vars, derived_vars>>

\* calculate_deductions_endpoint storing into projects_db.setdefault(project_id, {})
calculate_deductions_finish_setdefault(r) ==
    /\ At(r, "calculate_deductions_endpoint", "calculate_deposit_deductions")
    /\ \E o \in DeductionOutcomes :
          LET project == dict_get(projects_db, req[r].pid, JObj(EmptyDict)) IN
          /\ projects_db' =
                set_item(projects_db, req[r].pid,
                         JObj(set_item(project.v, "deposit_deductions", o.result.val)))
          /\ Done(r, Ok(o.result.val), [deposit_deductions |-> o.result.val], <<>>)
    /\ UNCHANGED <<api_key, started, floor_plans_db, inspection_state_db>>
    /\ UNCHANGED <<extract_vars, derived_vars>>

calculate_deductions_finish(r) ==
    /\ At(r, "calculate_deductions_endpoint", "calculate_deposit_deductions")
    /\ \E o \in DeductionOutcomes :
          LET result == o.result.val
              pid == req[r].pid
          IN IF pid \in DOMAIN projects_db
             THEN /\ projects_db' =
                        [projects_db EXCEPT
                            ![pid] = JObj(set_item(@.v, "deposit_deductions", result))]
                  /\ Done(r, Ok(result), [deposit_deductions |-> result], <<>>)
             ELSE /\ UNCHANGED projects_db
                  /\ Done(r, Ok(result), EmptyDict, <<>>)
    /\ UNCHANGED <<api_key, started, floor_plans_db, inspection_state_db>>
    /\ UNCHANGED <<extract_vars, derived_vars>>

(*************************** /project/{project_id} *************************)
\* get_project with projects_db.setdefault(project_id, {}) for the lookup
get_project_setdefault(r, project_id) ==
    /\ Begin(r, [NewSlot("get_project", project_id, <<>>, "", "done", <<>>)
                    EXCEPT !.resp = Ok(get_project_view(project_id))])
    /\ projects_db' = IF project_id \in DOMAIN projects_db THEN projects_db
                      ELSE set_item(projects_db, project_id, JObj(EmptyDict))
    /\ UNCHANGED <<api_key, floor_plans_db, inspection_state_db>>
    /\ UNCHANGED <<extract_vars, derived_vars>>

get_project(r, project_id) ==
    /\ Begin(r, [NewSlot("get_project", project_id, <<>>, "", "done", <<>>)
                    EXCEPT !.resp = Ok(get_project_view(project_id))])
    /\ UNCHANGED <<api_key, store_vars>>
    /\ UNCHANGED <<extract_vars, derived_vars>>

GetProject(r) == \E project_id \in ReadIds : get_project(r, project_id)

(***************************************************************************)
(* Specifications                                                          *)
(***************************************************************************)
InitServer ==
    /\ api_key \in BOOLEAN
    /\ projects_db = EmptyDict
    /\ floor_plans_db = EmptyDict
    /\ inspection_state_db = EmptyDict
    /\ req = [s \in Slots |-> IdleSlot]
    /\ started = 0

NoExtraction ==
    /\ raw_text = ""
    /\ record = JNull
    /\ wrapping = "text"
    /\ fn = "none"
    /\ ret = NoReturn

NoDerivation ==
    /\ plan = JNull
    /\ damage_list = JList(<<>>)
    /\ deposit_paid = 0
    /\ invocations = 0
    /\ pending = [stream |-> StreamOf(<<>>), from_pdf |-> FALSE]
    /\ phase = "idle"
    /\ consumed = 0
    /\ locals = StreamStart

Init == InitServer /\ NoExtraction /\ NoDerivation

Next ==
    \E r \in Slots :
        \/ process_lease_start(r)
        \/ process_lease_lease_info(r)
        \/ process_lease_floor_plan(r)
        \/ extract_lease_info_start(r)
        \/ extract_lease_info_finish(r)
        \/ extract_floor_plan_start(r)
        \/ extract_floor_plan_finish(r)
        \/ generate_3d_start(r)
        \/ generate_3d_floor_plan_check(r)
        \/ generate_3d_parsed(r)
        \/ generate_3d_described(r)
        \/ parse_floor_plan_start(r)
        \/ parse_floor_plan_finish(r)
        \/ calculate_deductions_start(r)
        \/ calculate_deductions_finish(r)
        \/ GetProject(r)

Spec == Init /\ [][Next]_vars

\* a reply is free text, or a record encoded and wrapped; or the invocation
\* raised, and raw_text is the str(e) of its exception
InitExtract ==
    /\ fn = "none"
    /\ ret = NoReturn
    /\ \/ /\ record = JNull
          /\ wrapping = "text"
          /\ raw_text \in Texts
       \/ /\ record = JNull
          /\ wrapping = "raised"
          /\ raw_text \in {"503 UNAVAILABLE", "timed out"}
       \/ \E r \in Records, w \in Wrappings :
              /\ record = to_value(r)
              /\ wrapping = w
              /\ raw_text = wrap_reply(json_dumps(r), w)
    /\ api_key = TRUE
    /\ projects_db = EmptyDict
    /\ floor_plans_db = EmptyDict
    /\ inspection_state_db = EmptyDict
    /\ req = [s \in Slots |-> IdleSlot]
    /\ started = 0
    /\ NoDerivation

RunAnalyzeDamage ==
    /\ fn = "none"
    /\ fn' = "analyze_damage"
    /\ ret' = analyze_damage(IF wrapping = "raised" THEN ReplyFail(raw_text)
                             ELSE ReplyText(raw_text))
    /\ invocations' = invocations + 1
    /\ UNCHANGED <<raw_text, record, wrapping, server_vars>>
    /\ UNCHANGED <<plan, damage_list, deposit_paid, pending, phase, consumed, locals>>

RunAnalyzeDamageStandalone ==
    /\ fn = "none"
    /\ fn' = "analyze_damage_standalone"
    /\ ret' = analyze_damage_standalone(IF wrapping = "raised" THEN ReplyFail(raw_text)
                                        ELSE ReplyText(raw_text))
    /\ invocations' = invocations + 1
    /\ UNCHANGED <<raw_text, record, wrapping, server_vars>>
    /\ UNCHANGED <<plan, damage_list, deposit_paid, pending, phase, consumed, locals>>

RunExtractLeaseInfo ==
    /\ fn = "none"
    /\ fn' = "extract_lease_info"
    /\ ret' = extract_lease_info(IF wrapping = "raised" THEN ReplyFail(raw_text)
                                 ELSE ReplyText(raw_text))
    /\ invocations' = invocations + 1
    /\ UNCHANGED <<raw_text, record, wrapping, server_vars>>
    /\ UNCHANGED <<plan, damage_list, deposit_paid, pending, phase, consumed, locals>>

RunParseFloorPlan ==
    /\ fn = "none"
    /\ fn' = "parse_floor_plan"
    /\ ret' = parse_floor_plan(IF wrapping = "raised" THEN ReplyFail(raw_text)
                               ELSE ReplyText(raw_text))
    /\ invocations' = invocations + 1
    /\ UNCHANGED <<raw_text, record, wrapping, server_vars>>
    /\ UNCHANGED <<plan, damage_list, deposit_paid, pending, phase, consumed, locals>>

NextExtract ==
    \/ RunAnalyzeDamage
    \/ RunAnalyzeDamageStandalone
    \/ RunExtractLeaseInfo
    \/ RunParseFloorPlan

SpecExtract == InitExtract /\ [][NextExtract]_vars

(***************************************************************************)
(* The pricing functions run on their own: one call of                     *)
(* generate_repair_quote or of calculate_deposit_deductions, cut at the    *)
(* await of its model invocation                                           *)
(***************************************************************************)
InitPricing ==
    /\ InitServer
    /\ api_key = TRUE
    /\ NoExtraction
    /\ plan = JNull
    /\ damage_list \in DamageLists
    /\ deposit_paid \in {0, 500, 600}
    /\ invocations = 0
    /\ pending = [stream |-> StreamOf(<<>>), from_pdf |-> FALSE]
    /\ phase = "idle"
    /\ consumed = 0
    /\ locals = StreamStart

generate_repair_quote_start ==
    /\ fn = "none"
    /\ fn' = "generate_repair_quote"
    /\ \E currency \in {"EUR", "MAD"} :
          LET early == generate_repair_quote_no_damages(damage_list, currency) IN
          /\ ret' = early
          /\ invocations' = IF early.kind = "return" THEN invocations
                            ELSE invocations + 1
    /\ UNCHANGED <<raw_text, record, wrapping, server_vars>>
    /\ UNCHANGED <<plan, damage_list, deposit_paid, pending, phase, consumed, locals>>

generate_repair_quote_finish ==
    /\ fn = "generate_repair_quote"
    /\ ret = NoReturn
    /\ \E reply \in QuoteReplies :
          /\ ret' = generate_repair_quote(reply)
          \* raw_text = response.text
          /\ raw_text' = IF reply.ok THEN reply.text ELSE raw_text
    /\ UNCHANGED <<record, wrapping, fn, server_vars, derived_vars>>

calculate_deposit_deductions_start ==
    /\ fn = "none"
    /\ fn' = "calculate_deposit_deductions"
    /\ ret' = NoReturn
    /\ invocations' = invocations + 1
    /\ UNCHANGED <<raw_text, record, wrapping, server_vars>>
    /\ UNCHANGED <<plan, damage_list, deposit_paid, pending, phase, consumed, locals>>

calculate_deposit_deductions_finish ==
    /\ fn = "calculate_deposit_deductions"
    /\ ret = NoReturn
    /\ \E reply \in PricingDeductionReplies :
          /\ ret' = calculate_deposit_deductions(reply)
          \* raw_text = response.text
          /\ raw_text' = IF reply.ok THEN reply.text ELSE raw_text
    /\ UNCHANGED <<record, wrapping, fn, server_vars, derived_vars>>

NextPricing ==
    \/ generate_repair_quote_start
    \/ generate_repair_quote_finish
    \/ calculate_deposit_deductions_start
    \/ calculate_deposit_deductions_finish

SpecPricing == InitPricing /\ [][NextPricing]_vars

(***************************************************************************)
(* The derivations from a parsed floor plan run on their own               *)
(***************************************************************************)
InitChecklist ==
    /\ InitServer
    /\ api_key = TRUE
    /\ NoExtraction
    /\ plan \in FloorPlans
    /\ damage_list = JList(<<>>)
    /\ deposit_paid = 0
    /\ invocations = 0
    /\ pending = [stream |-> StreamOf(<<>>), from_pdf |-> FALSE]
    /\ phase = "idle"
    /\ consumed = 0
    /\ locals = StreamStart

RunCreateInspectionChecklist ==
    /\ fn = "none"
    /\ fn' = "create_inspection_checklist"
    /\ ret' = create_inspection_checklist(plan)
    /\ UNCHANGED <<raw_text, record, wrapping, server_vars, derived_vars>>

RunGenerate3dLayout ==
    /\ fn = "none"
    /\ fn' = "generate_3d_layout"
    /\ ret' = generate_3d_layout(plan)
    /\ UNCHANGED <<raw_text, record, wrapping, server_vars, derived_vars>>

NextChecklist ==
    \/ RunCreateInspectionChecklist
    \/ RunGenerate3dLayout

SpecChecklist == InitChecklist /\ [][NextChecklist]_vars

(***************************************************************************)
(* generate_3d_floor_plan_image run on its own, cut at its awaits and at   *)
(* every read of a chunk                                                   *)
(***************************************************************************)
InitStream ==
    /\ InitServer
    /\ NoExtraction
    /\ plan = JNull
    /\ damage_list = JList(<<>>)
    /\ deposit_paid = 0
    /\ invocations = 0
    /\ pending \in {[stream |-> stream, from_pdf |-> from_pdf] :
                        stream \in ChunkStreams, from_pdf \in BOOLEAN}
    /\ phase = "idle"
    /\ consumed = 0
    /\ locals = StreamStart

generate_3d_floor_plan_image_start ==
    /\ phase = "idle"
    /\ fn = "none"
    /\ fn' = "generate_3d_floor_plan_image"
    /\ IF ~ api_key
       THEN /\ ret' = generate_3d_image_no_key
            /\ phase' = "returned"
            /\ UNCHANGED invocations
       ELSE /\ phase' = IF pending.from_pdf THEN "describing" ELSE "streaming"
            /\ invocations' = invocations + 1
            /\ UNCHANGED ret
    /\ UNCHANGED <<raw_text, record, wrapping, server_vars>>
    /\ UNCHANGED <<plan, damage_list, deposit_paid, pending, consumed, locals>>

generate_3d_floor_plan_image_described ==
    /\ phase = "describing"
    /\ \E reply \in DescribeReplies :
          LET description_result == describe_floor_plan_from_document(reply) IN
          IF description_result.val.v["status"] # JStr("success")
          THEN /\ ret' = description_result
               /\ phase' = "returned"
               /\ UNCHANGED invocations
          ELSE /\ phase' = "streaming"
               /\ invocations' = invocations + 1
               /\ UNCHANGED ret
    /\ UNCHANGED <<raw_text, record, wrapping, fn, server_vars>>
    /\ UNCHANGED <<plan, damage_list, deposit_paid, pending, consumed, locals>>

generate_3d_floor_plan_image_chunk ==
    /\ phase = "streaming"
    /\ consumed < Len(pending.stream.chunks)
    /\ locals' = consume_chunk(pending.stream.chunks[consumed + 1], locals)
    /\ consumed' = consumed + 1
    /\ UNCHANGED <<extract_vars, server_vars>>
    /\ UNCHANGED <<plan, damage_list, deposit_paid, invocations, pending, phase>>

generate_3d_floor_plan_image_return ==
    /\ phase = "streaming"
    /\ consumed = Len(pending.stream.chunks)
    /\ ret' = IF pending.stream.ok
              THEN generate_3d_image_result(locals, pending.from_pdf)
              ELSE generate_3d_image_failed(pending.stream.text, pending.from_pdf)
    /\ phase' = "returned"
    /\ UNCHANGED <<raw_text, record, wrapping, fn, server_vars>>
    /\ UNCHANGED <<plan, damage_list, deposit_paid, invocations, pending, consumed, locals>>

NextStream ==
    \/ generate_3d_floor_plan_image_start
    \/ generate_3d_floor_plan_image_described
    \/ generate_3d_floor_plan_image_chunk
    \/ generate_3d_floor_plan_image_return

SpecStream == InitStream /\ [][NextStream]_vars

(***************************************************************************)
(* The attachment of a stage called without a media type: parse_floor_plan *)
(* (mime_type=None or given) and analyze_damage, each cut at its model     *)
(* invocation.  A slot holds the bytes and the media type the caller gave  *)
(* ("" for none); calls holds the media type sent with the bytes.          *)
(***************************************************************************)
MaxPrefix == 9

\* the first bytes of a PDF, a PNG, a JPEG, a GIF87a, a GIF89a, and of
\* three files no signature matches
SampleFiles ==
    { <<37, 80, 68, 70, 45, 49, 46, 52, 10, 37>>,
      <<137, 80, 78, 71, 13, 10, 26, 10, 0, 0>>,
      <<255, 216, 255, 224, 0, 16, 74, 70, 73, 70>>,
      <<71, 73, 70, 56, 55, 97, 1, 0, 1, 0>>,
      <<71, 73, 70, 56, 57, 97, 1, 0, 1, 0>>,
      <<71, 73, 70, 56, 56, 97, 1, 0, 1, 0>>,
      <<137, 80, 78, 71, 13, 10, 26, 11, 0, 0>>,
      <<82, 73, 70, 70, 36, 0, 0, 0, 87, 69>> }

\* files cut short, down to the empty input
AttachmentBytes ==
    {SubSeq(f, 1, IF Len(f) < n THEN Len(f) ELSE n) : f \in SampleFiles, n \in 0..MaxPrefix}

\* parse_floor_plan(floor_plan_image, mime_type) up to its invocation
parse_floor_plan_attach(r) ==
    /\ \E floor_plan_image \in AttachmentBytes, given \in {"", "application/pdf"} :
          LET mime_type == IF given = "" THEN detect_mime_type(floor_plan_image)
                           ELSE given
          IN Begin(r, NewSlot("parse_floor_plan", "", floor_plan_image, given,
                              "generate_content",
                              <<Call("parse_floor_plan", mime_type)>>))
    /\ UNCHANGED <<api_key, store_vars>>
    /\ UNCHANGED <<extract_vars, derived_vars>>

\* analyze_damage(current_image, reference_images) up to its invocation;
\* the reference images are attached the way current_image is
analyze_damage_attach(r) ==
    /\ \E current_image \in AttachmentBytes :
          Begin(r, NewSlot("analyze_damage", "", current_image, "",
                           "generate_content",
                           <<Call("analyze_damage", "image/jpeg")>>))
    /\ UNCHANGED <<api_key, store_vars>>
    /\ UNCHANGED <<extract_vars, derived_vars>>

NextAttach ==
    \E r \in Slots :
        \/ parse_floor_plan_attach(r)
        \/ analyze_damage_attach(r)

SpecAttach == Init /\ [][NextAttach]_vars

(***************************************************************************)
(* Claims about the extraction step, checked under SpecExtract             *)
(***************************************************************************)

\* C1 (as stated): for every reply text, analyze_damage and
\* analyze_damage_standalone end by returning a structured or a heuristic
\* result; no exception leaves them.
C1_NeverRaises ==
    fn \in {"analyze_damage", "analyze_damage_standalone"} =>
        /\ ret.kind = "return"
        /\ ret.path \in {"structured", "heuristic"}

\* C2 (as stated): a record that is encoded, wrapped (bare, fenced, fenced
\* with the json tag) and extracted comes back as a structured result in
\* which every field of the record has the value it had.
C2_RoundTrip ==
    (record.t = "obj" /\ fn # "none") =>
        /\ ret.kind = "return"
        /\ ret.path = "structured"
        /\ ret.val.t = "obj"
        /\ \A k \in DOMAIN record.v :
              k \in DOMAIN ret.val.v /\ ret.val.v[k] = record.v[k]

\* C3 (as stated): when json.loads fails, a text whose lowercased form has
\* none of the eleven terms of the spec and not "no damage" is classified
\* damage_found = false.
C3_SpecVocabulary ==
    ( /\ fn \in {"analyze_damage", "analyze_damage_standalone"}
      /\ ret.path = "heuristic"
      /\ \A term \in {"water", "crack", "hole", "dent", "scratch", "stain", "peel",
                       "mold", "broken", "chip", "wear"} :
            ~ str_in(term, str_lower(raw_text))
      /\ ~ str_in("no damage", str_lower(raw_text)) )
    => ret.val.v.damage_found = JBool(FALSE)

\* C3 (amended): when json.loads fails, a text whose lowercased form has
\* none of the twelve terms of the code (the eleven of the spec and
\* "damage") and not "no damage" is classified damage_found = false.
C3_CodeVocabulary ==
    ( /\ fn \in {"analyze_damage", "analyze_damage_standalone"}
      /\ ret.path = "heuristic"
      /\ \A term \in {"damage", "water", "crack", "hole", "dent", "scratch", "stain",
                       "peel", "mold", "broken", "chip", "wear"} :
            ~ str_in(term, str_lower(raw_text))
      /\ ~ str_in("no damage", str_lower(raw_text)) )
    => ret.val.v.damage_found = JBool(FALSE)

\* C3 witness: the heuristic ran on the prose "fine", which has no term
C3_PlainProse ==
    /\ fn = "analyze_damage"
    /\ ret.path = "heuristic"
    /\ raw_text = "fine"
    /\ ret.val.v.damage_found = JBool(FALSE)

\* C4: when json.loads fails, a text whose lowercased form contains
\* "no damage" is classified damage_found = false, whatever terms it has.
C4_NegationOverrides ==
    ( /\ fn \in {"analyze_damage", "analyze_damage_standalone"}
      /\ ret.path = "heuristic"
      /\ str_in("no damage", str_lower(raw_text)) )
    => ret.val.v.damage_found = JBool(FALSE)

\* C4 witness: the heuristic ran on a text that says "No Damage" in
\* capitals and also names a crack
C4_NegatedCrack ==
    /\ fn = "analyze_damage_standalone"
    /\ ret.path = "heuristic"
    /\ str_in("No Damage", raw_text)
    /\ str_in("crack", raw_text)
    /\ ret.val.v.damage_found = JBool(FALSE)

\* C21 (as stated): a stage whose model invocation failed returns a result
\* with status error, a message that holds the text of the failure and no
\* payload (no other field with content); no exception leaves the stage and
\* the stage has invoked the model once.
C21_FailureReported ==
    (fn # "none" /\ wrapping = "raised") =>
        /\ ret.kind = "return"
        /\ dict_get(ret.val.v, "status", JNull) = JStr("error")
        /\ str_in(raw_text, dict_get(ret.val.v, "message", JStr("")).v)
        /\ \A k \in DOMAIN ret.val.v \ {"status", "message"} : ~ truthy(ret.val.v[k])
        /\ invocations = 1

(***************************************************************************)
(* Claims about the workflows and the stores, checked under Spec           *)
(***************************************************************************)

\* C5 (as stated): in a run of /lease/generate-3d-from-document whose
\* parse stage did not reach success, the image stage is not attempted (no
\* model invocation for it) and is reported with status skipped.
C5_SkippedAfterFailure ==
    \A r \in Slots :
        ( /\ req[r].ep = "generate_3d_from_document_endpoint"
          /\ req[r].pc = "done"
          /\ req[r].resp.kind = "ok"
          /\ "floor_plan" \in DOMAIN req[r].resp.val.v
          /\ dict_get(req[r].resp.val.v.floor_plan.v, "status", JNull) # JStr("success") )
        => /\ \A i \in DOMAIN req[r].calls :
                 req[r].calls[i].stage \notin {"describe_floor_plan_from_document",
                                              "generate_content_stream"}
           /\ dict_get(req[r].resp.val.v.image_3d.v, "status", JNull) = JStr("skipped")

\* C6 (as stated): the record a workflow run returns holds an outcome for
\* every stage of the workflow, on every path.
C6_EveryStageReported ==
    \A r \in Slots :
        (req[r].pc = "done" /\ req[r].resp.kind = "ok") =>
            /\ req[r].ep = "process_lease_endpoint" =>
                  {"lease_info", "floor_plan"} \subseteq DOMAIN req[r].resp.val.v
            /\ req[r].ep = "generate_3d_from_document_endpoint" =>
                  {"floor_plan", "layout_3d", "checklist", "image_3d"}
                      \subseteq DOMAIN req[r].resp.val.v

\* C7 (as stated): a workflow run reports the top-level status success only
\* when every stage that reports a status reports success.
C7_SuccessMeansAllSucceeded ==
    \A r \in Slots :
        ( /\ req[r].ep \in {"process_lease_endpoint", "generate_3d_from_document_endpoint"}
          /\ req[r].pc = "done"
          /\ req[r].resp.kind = "ok"
          /\ dict_get(req[r].resp.val.v, "status", JNull) = JStr("success") )
        => \A stage \in {"lease_info", "floor_plan", "image_3d"} \cap DOMAIN req[r].resp.val.v :
               dict_get(req[r].resp.val.v[stage].v, "status", JNull) = JStr("success")

\* C8 (as stated): a step changes a field of a project's aggregate only if
\* the request that took the step supplies that field; every other field
\* keeps its value.
C8_WritesOnlySupplied ==
    [][\A pid \in ProjectIds :
         \A f \in {"lease_info", "deposit_amount", "deposit_currency", "floor_plan",
                   "inspection_checklist", "deposit_deductions"} :
             get_project_view(pid).v[f]' # get_project_view(pid).v[f] =>
                 \E r \in Slots : /\ req[r]' # req[r]
                                  /\ req[r]'.pid = pid
                                  /\ f \in DOMAIN req[r]'.patch]_vars

\* C9: a read answers without an error and changes no store; for a key no
\* store holds, it answers the empty aggregate.  (A read is a step that
\* leaves a get_project request in a slot.)
C9_ReadIsPure ==
    [][\A r \in Slots :
         (req[r]' # req[r] /\ req[r]'.ep = "get_project") =>
             /\ store_vars' = store_vars
             /\ req[r]'.resp.kind = "ok"
             /\ req[r]'.pid \notin (DOMAIN projects_db \cup DOMAIN floor_plans_db
                                      \cup DOMAIN inspection_state_db) =>
                   req[r]'.resp.val =
                       JObj([project_id |-> JStr(req[r]'.pid),
                             lease_info |-> JNull,
                             deposit_amount |-> JNull,
                             deposit_currency |-> JNull,
                             floor_plan |-> JNull,
                             inspection_checklist |-> JObj(EmptyDict),
                             deposit_deductions |-> JNull])]_vars

\* C9 witness: the stores hold project p1, and a read of the key p2, which
\* was never written, has been answered
C9_UnknownKeyRead ==
    \E r \in Slots :
        /\ req[r].ep = "get_project"
        /\ req[r].pid = "p2"
        /\ req[r].resp.kind = "ok"
        /\ "p1" \in DOMAIN projects_db
        /\ "p2" \notin DOMAIN projects_db

\* C10 (as stated): when the second of two requests that ran concurrently
\* on one key completes, every field only one of them supplied has that
\* request's value, and every field both supplied has the value of one of
\* them.
C10_ConcurrentWritesMerge ==
    [][\A pid \in ProjectIds, r \in Slots, o \in Slots :
         ( /\ r # o
           /\ req[r].pc # "done" /\ req[r]'.pc = "done"
           /\ req[o]'.pc = "done"
           /\ req[r]'.conc /\ req[o]'.conc
           /\ req[r]'.pid = pid /\ req[o]'.pid = pid )
         => \A f \in DOMAIN req[o]'.patch :
                \/ get_project_view(pid).v[f]' = req[o]'.patch[f]
                \/ /\ f \in DOMAIN req[r]'.patch
                   /\ get_project_view(pid).v[f]' = req[r]'.patch[f]]_vars

\* C22 (as stated): a run of /lease/process ends with a result record and
\* never with a fault, whatever extract_lease_info returned; when the lease
\* record has no security_deposit (null or absent), the deposit amount
\* reported is null.
C22_NullDepositReported ==
    \A r \in Slots :
        (req[r].ep = "process_lease_endpoint" /\ req[r].pc = "done") =>
            /\ req[r].resp.kind = "ok"
            /\ dict_get(req[r].resp.val.v.lease_info.v, "security_deposit", JNull) = JNull
                  => req[r].resp.val.v.deposit_amount = JNull

\* C24 (as stated): when a request that writes a field (lease info from
\* /lease/process or /lease/extract-info, deductions from /deposit/calculate,
\* floor plan and checklist from /floor-plan/parse) completes on a key with
\* no stored project, a read of the key returns the written field.
C24_CreatedOnFirstWrite ==
    [][\A pid \in ProjectIds, r \in Slots :
         ( /\ req[r].pc # "done" /\ req[r]'.pc = "done"
           /\ req[r]'.resp.kind = "ok"
           /\ req[r]'.pid = pid
           /\ pid \notin DOMAIN projects_db )
         => /\ req[r]'.ep = "process_lease_endpoint" =>
                  get_project_view(pid).v.lease_info' = req[r]'.resp.val.v.lease_info
            /\ req[r]'.ep = "extract_lease_info_endpoint" =>
                  get_project_view(pid).v.lease_info' = req[r]'.resp.val
            /\ req[r]'.ep = "calculate_deductions_endpoint" =>
                  get_project_view(pid).v.deposit_deductions' = req[r]'.resp.val
            /\ req[r]'.ep = "parse_floor_plan_endpoint" =>
                  /\ get_project_view(pid).v.floor_plan' = req[r]'.resp.val.v.floor_plan
                  /\ get_project_view(pid).v.inspection_checklist'
                        = req[r]'.resp.val.v.checklist]_vars

\* C24 (amended): /lease/process creates the project of its key, and
\* /floor-plan/parse stores floor plan and checklist for its key whether or
\* not a project is stored: a read then returns the written fields.
\* /lease/extract-info and /deposit/calculate on a key with no stored
\* project return their result and store nothing.
C24_CreatedByProcessLease ==
    [][\A pid \in ProjectIds, r \in Slots :
         ( /\ req[r].pc # "done" /\ req[r]'.pc = "done"
           /\ req[r]'.resp.kind = "ok"
           /\ req[r]'.pid = pid
           /\ pid \notin DOMAIN projects_db )
         => /\ req[r]'.ep = "process_lease_endpoint" =>
                  /\ pid \in DOMAIN projects_db'
                  /\ get_project_view(pid).v.lease_info' = req[r]'.resp.val.v.lease_info
            /\ req[r]'.ep \in {"extract_lease_info_endpoint",
                               "calculate_deductions_endpoint"} =>
                  /\ store_vars' = store_vars
                  /\ get_project_view(pid).v.lease_info' = JNull
                  /\ get_project_view(pid).v.deposit_deductions' = JNull
            /\ req[r]'.ep = "parse_floor_plan_endpoint" =>
                  /\ get_project_view(pid).v.floor_plan' = req[r]'.resp.val.v.floor_plan
                  /\ get_project_view(pid).v.inspection_checklist'
                        = req[r]'.resp.val.v.checklist]_vars

\* C24 witness: /deposit/calculate has answered the second request on key
\* p1 with a computed breakdown, and no project is stored for p1
C24_ResultNotStored ==
    /\ "p1" \notin DOMAIN projects_db
    /\ req["s1"].ep = "calculate_deductions_endpoint"
    /\ req["s1"].pc = "done"
    /\ req["s1"].resp.kind = "ok"
    /\ dict_get(req["s1"].resp.val.v, "status", JNull) = JStr("success")
    /\ started = 2

\* C25: in a run of /lease/generate-3d-from-document the model is invoked
\* for parse_floor_plan only as the second invocation, after
\* extract_floor_plan_from_document has returned floor_plan_found; the
\* layout, the checklist and the invocations of the image stage come only
\* after parse_floor_plan has returned; a run that answers no_floor_plan
\* has made no invocation after the identification.
C25_DependencyOrder ==
    \A r \in Slots :
        req[r].ep = "generate_3d_from_document_endpoint" =>
            LET calls == req[r].calls
                loc == req[r].loc
            IN /\ \A i \in DOMAIN calls :
                     /\ calls[i].stage = "extract_floor_plan_from_document" => i = 1
                     /\ calls[i].stage = "parse_floor_plan" =>
                           /\ i = 2
                           /\ calls[1].stage = "extract_floor_plan_from_document"
                     /\ calls[i].stage \in {"describe_floor_plan_from_document",
                                            "generate_content_stream"} =>
                           /\ i > 2
                           /\ calls[2].stage = "parse_floor_plan"
               /\ req[r].pc = "parse_floor_plan" =>
                     /\ truthy(dict_get(loc.floor_plan_check.v, "floor_plan_found", JNull))
                     /\ DOMAIN loc = {"floor_plan_check"}
               /\ req[r].pc = "describe_floor_plan_from_document" =>
                     {"floor_plan_data", "layout_3d", "checklist"} \subseteq DOMAIN loc
               /\ ( /\ req[r].pc = "done"
                    /\ req[r].resp.kind = "ok"
                    /\ dict_get(req[r].resp.val.v, "status", JNull) = JStr("no_floor_plan") )
                  => Len(calls) <= 1

\* C25 witness: a run on a PDF has answered success after the four
\* invocations identify, parse, describe, render, in that order
C25_FourStagesInOrder ==
    \E r \in Slots :
        /\ req[r].ep = "generate_3d_from_document_endpoint"
        /\ req[r].pc = "done"
        /\ req[r].resp.kind = "ok"
        /\ dict_get(req[r].resp.val.v, "status", JNull) = JStr("success")
        /\ [i \in DOMAIN req[r].calls |-> req[r].calls[i].stage]
              = <<"extract_floor_plan_from_document", "parse_floor_plan",
                  "describe_floor_plan_from_document", "generate_content_stream">>

\* C27 (as stated): whenever the floor plan stored for a key holds a list
\* of rooms, the checklist stored for the key is the one
\* create_inspection_checklist builds from that floor plan.
C27_ChecklistMatchesFloorPlan ==
    \A pid \in ProjectIds :
        LET floor_plan == get_project_view(pid).v.floor_plan
            inspection == get_project_view(pid).v.inspection_checklist
        IN ( /\ floor_plan.t = "obj"
             /\ dict_get(floor_plan.v, "rooms", JNull).t = "list" )
           => inspection = create_inspection_checklist(floor_plan).val

\* C28 (as stated): the step of /floor-plan/parse or of
\* /lease/generate-3d-from-document in which parse_floor_plan returns
\* status error leaves the floor plan and the checklist a read of the key
\* returns as they were.
C28_FailedParseKeepsStored ==
    [][\A pid \in ProjectIds, r \in Slots :
         ( /\ req[r].pc = "parse_floor_plan"
           /\ req[r].pid = pid
           /\ \/ /\ req[r]'.pc = "done"
                 /\ req[r]'.resp.kind = "ok"
                 /\ dict_get(req[r]'.resp.val.v.floor_plan.v, "status", JNull)
                       = JStr("error")
              \/ /\ req[r]'.pc = "describe_floor_plan_from_document"
                 /\ dict_get(req[r]'.loc.floor_plan_data.v, "status", JNull)
                       = JStr("error") )
         => /\ get_project_view(pid).v.floor_plan' = get_project_view(pid).v.floor_plan
            /\ get_project_view(pid).v.inspection_checklist'
                  = get_project_view(pid).v.inspection_checklist]_vars

(***************************************************************************)
(* Claims about the pricing functions, checked under SpecPricing           *)
(***************************************************************************)
RECURSIVE sum_of(_, _)
\* the sum of field key over the line items
sum_of(items, key) ==
    IF items = <<>> THEN 0 ELSE Head(items).v[key].v + sum_of(Tail(items), key)

\* items is a list of line items that all carry a number under key
line_items(items, key) ==
    /\ items.t = "list"
    /\ \A k \in 1..Len(items.v) :
          /\ items.v[k].t = "obj"
          /\ key \in DOMAIN items.v[k].v
          /\ items.v[k].v[key].t = "num"

\* C11 (as stated): every quote returned with material and labor line items
\* has a summary whose grand_total is subtotal + round(subtotal * 0.10), with
\* subtotal the sum of the material totals and the labor totals, whatever
\* totals the reply held.  (10 * grand_total is within 5 of 11 * subtotal:
\* true of every rule that rounds subtotal / 10 to a nearest integer.)
C11_GrandTotalRecomputed ==
    (/\ fn = "generate_repair_quote"
     /\ ret.kind = "return"
     /\ ret.val.t = "obj"
     /\ {"materials", "labor"} \subseteq DOMAIN ret.val.v
     /\ line_items(ret.val.v["materials"], "total")
     /\ line_items(ret.val.v["labor"], "total"))
    => LET subtotal == sum_of(ret.val.v["materials"].v, "total")
                       + sum_of(ret.val.v["labor"].v, "total")
           summary == dict_get(ret.val.v, "summary", JObj(EmptyDict))
           grand_total == dict_get(summary.v, "grand_total", JNull)
       IN /\ grand_total.t = "num"
          /\ 10 * grand_total.v - 11 * subtotal \in (-5)..5

\* C12 (as stated): every deduction result returned has deposit_return =
\* max(0, deposit_amount - total), with total the sum of the listed
\* deduction amounts; deposit_return is never negative.
C12_DepositReturnClamped ==
    (/\ fn = "calculate_deposit_deductions"
     /\ ret.kind = "return"
     /\ ret.val.v["status"] = JStr("success")
     /\ "deductions" \in DOMAIN ret.val.v
     /\ line_items(ret.val.v["deductions"], "deduction_amount"))
    => LET total == sum_of(ret.val.v["deductions"].v, "deduction_amount")
           deposit_return == dict_get(ret.val.v, "deposit_return", JNull)
       IN /\ deposit_return.t = "num"
          /\ deposit_return.v >= 0
          /\ deposit_return.v = IF deposit_paid > total THEN deposit_paid - total ELSE 0
          /\ dict_get(ret.val.v, "total_deductions", JNull) = JNum(total)

TotalFields == {"total", "materials_total", "labor_total", "subtotal",
                "contingency_10_percent", "grand_total"}

\* C13: generate_repair_quote on an empty damage list returns, without a
\* model invocation, a quote that has a total and in which every total
\* (at the top level or in a summary) is zero.
C13_EmptyListZeroQuote ==
    (fn = "generate_repair_quote" /\ damage_list = JList(<<>>))
    => /\ ret.kind = "return"
       /\ invocations = 0
       /\ ret.val.t = "obj"
       /\ \E k \in TotalFields : k \in DOMAIN ret.val.v
       /\ \A k \in TotalFields \cap DOMAIN ret.val.v : ret.val.v[k] = JNum(0)
       /\ LET summary == dict_get(ret.val.v, "summary", JObj(EmptyDict)) IN
          \A k \in TotalFields \cap DOMAIN summary.v : summary.v[k] = JNum(0)

\* an empty damage list has been priced
C13_EmptyListPriced ==
    /\ fn = "generate_repair_quote"
    /\ damage_list = JList(<<>>)
    /\ ret.kind = "return"
    /\ ret.val.v["total"] = JNum(0)

\* C14 (as stated): calculate_deposit_deductions on an empty damage list
\* makes no model invocation and returns total_deductions = 0 and
\* deposit_return = deposit_amount.
C14_EmptyListZeroDeduction ==
    (fn = "calculate_deposit_deductions" /\ damage_list = JList(<<>>))
    => /\ invocations = 0
       /\ ret.kind = "return"
       /\ dict_get(ret.val.v, "total_deductions", JNull) = JNum(0)
       /\ dict_get(ret.val.v, "deposit_return", JNull) = JNum(deposit_paid)

\* C23 (as stated): a stage whose reply json.loads could not parse does not
\* report status error: it returns a result that carries the unparsed reply
\* text in one of its fields.
C23_ParseFailureDegrades ==
    (fn # "none" /\ ret.path = "heuristic") =>
        /\ dict_get(ret.val.v, "status", JNull) # JStr("error")
        /\ \E k \in DOMAIN ret.val.v : ret.val.v[k] = JStr(raw_text)

(***************************************************************************)
(* Claims about the checklist, checked under SpecChecklist                 *)
(***************************************************************************)
\* plan is a typed floor plan: a list of rooms with text identifiers and
\* types, and a route of text identifiers
typed_floor_plan(fp) ==
    /\ fp.t = "obj"
    /\ "rooms" \in DOMAIN fp.v
    /\ fp.v["rooms"].t = "list"
    /\ \A k \in 1..Len(fp.v["rooms"].v) :
          LET room == fp.v["rooms"].v[k] IN
          /\ room.t = "obj"
          /\ dict_get(room.v, "id", JStr("")).t = "str"
          /\ dict_get(room.v, "type", JStr("")).t = "str"
    /\ LET route == dict_get(fp.v, "inspection_route", JList(<<>>)) IN
       /\ route.t = "list"
       /\ \A k \in 1..Len(route.v) : route.v[k].t = "str"

\* the rank the claim gives room_id: its index in route (the first one, or
\* the last one, when it is listed more than once), and past the end of
\* route when it is not listed
claimed_rank(route, room_id, pick) ==
    LET at == {k \in 1..Len(route) : route[k] = room_id} IN
    IF at = {} THEN Len(route)
    ELSE IF pick = "first" THEN (CHOOSE k \in at : \A j \in at : k <= j) - 1
    ELSE (CHOOSE k \in at : \A j \in at : k >= j) - 1

\* C15 (as stated): the checklist has one entry per room of the plan, in
\* the order of a stable sort on rank, where a listed room's rank is the
\* index of its identifier in the route and an unlisted room ranks after
\* every listed room, whatever the length of the route; rooms of equal rank
\* keep their order in the room list.
C15_StableRouteOrder ==
    (fn = "create_inspection_checklist" /\ typed_floor_plan(plan))
    => /\ ret.kind = "return"
       /\ LET rooms == plan.v["rooms"].v
              route == dict_get(plan.v, "inspection_route", JList(<<>>)).v
              checklist == ret.val.v["checklist"].v
              id(k) == dict_get(rooms[k].v, "id", JStr(""))
          IN /\ Len(checklist) = Len(rooms)
             /\ \E pick \in {"first", "last"} :
                   \E order \in Permutations(1..Len(rooms)) :
                      /\ \A k \in 1..Len(rooms) :
                            /\ checklist[k].v["room_id"] = id(order[k])
                            /\ checklist[k].v["room_type"] =
                                   dict_get(rooms[order[k]].v, "type", JStr("other"))
                      /\ \A k \in 1..(Len(rooms) - 1) :
                            LET this == claimed_rank(route, id(order[k]), pick)
                                next == claimed_rank(route, id(order[k + 1]), pick)
                            IN \/ this < next
                               \/ this = next /\ order[k] < order[k + 1]

\* the items the claim gives a room of type room_type
claimed_items(room_type) ==
    LET names == <<"Walls", "Ceiling", "Floor">> \o
                 (CASE room_type = JStr("bathroom") -> <<"Toilet", "Sink", "Shower">>
                    [] room_type = JStr("kitchen") -> <<"Cabinets", "Countertops", "Appliances">>
                    [] room_type = JStr("bedroom") -> <<"Windows", "Closet">>
                    [] room_type = JStr("living") -> <<"Windows", "Outlets">>
                    [] OTHER -> <<>>)
    IN JList([k \in 1..Len(names) |->
                 JObj([item |-> JStr(names[k]), checked |-> JBool(FALSE)])])

\* C16: every entry of a returned checklist lists Walls, Ceiling, Floor and
\* then the items of its room type, in the fixed order, all unchecked.
C16_ItemsByRoomType ==
    (fn = "create_inspection_checklist" /\ ret.kind = "return")
    => \A k \in 1..Len(ret.val.v["checklist"].v) :
          LET entry == ret.val.v["checklist"].v[k].v IN
          entry["inspection_items"] = claimed_items(entry["room_type"])

\* a checklist with a bedroom and a room of a type without items of its own
C16_BedroomAndHallway ==
    /\ fn = "create_inspection_checklist"
    /\ ret.kind = "return"
    /\ \E j, k \in 1..Len(ret.val.v["checklist"].v) :
          /\ ret.val.v["checklist"].v[j].v["room_type"] = JStr("bedroom")
          /\ Len(ret.val.v["checklist"].v[j].v["inspection_items"].v) = 5
          /\ ret.val.v["checklist"].v[k].v["room_type"] = JStr("hallway")
          /\ Len(ret.val.v["checklist"].v[k].v["inspection_items"].v) = 3

\* C18: a returned checklist has current_room none, completed_rooms 0 and
\* next_room the identifier of its first entry (none when it has no
\* entry); every entry is pending and has no damages.
C18_FreshNavigation ==
    (fn = "create_inspection_checklist" /\ ret.kind = "return")
    => LET checklist == ret.val.v["checklist"].v
           navigation == ret.val.v["navigation"].v
       IN /\ navigation["current_room"] = JNull
          /\ navigation["completed_rooms"] = JNum(0)
          /\ navigation["next_room"] =
                 IF checklist = <<>> THEN JNull ELSE checklist[1].v["room_id"]
          /\ \A k \in 1..Len(checklist) :
                /\ checklist[k].v["status"] = JStr("pending")
                /\ checklist[k].v["damages_found"] = JList(<<>>)

\* a checklist whose first entry is not the first room of the plan
C18_RouteStartsElsewhere ==
    /\ fn = "create_inspection_checklist"
    /\ ret.kind = "return"
    /\ Len(ret.val.v["checklist"].v) = 2
    /\ ret.val.v["navigation"].v["next_room"] = JStr("r2")
    /\ plan.v["rooms"].v[1].v["id"] = JStr("r1")

(***************************************************************************)
(* Claims about the streaming stage, checked under SpecStream              *)
(***************************************************************************)
\* the positions of the non-empty binary fragments of the chunk sequence
binary_at == {k \in 1..Len(pending.stream.chunks) :
                 pending.stream.chunks[k].parts /\ pending.stream.chunks[k].data # <<>>}

RECURSIVE text_of(_)
\* the text fragments of chunks, concatenated in order
text_of(chunks) ==
    IF chunks = <<>> THEN ""
    ELSE (IF Head(chunks).parts /\ Head(chunks).data = <<>> THEN Head(chunks).text ELSE "")
         \o text_of(Tail(chunks))

\* the function has returned after consuming the whole chunk sequence
stream_consumed ==
    /\ fn = "generate_3d_floor_plan_image"
    /\ phase = "returned"
    /\ pending.stream.ok
    /\ invocations = IF pending.from_pdf THEN 2 ELSE 1

\* C19 (as stated): when the chunk sequence holds non-empty binary
\* fragments, the result carries the data and the media type of the first
\* of them.
C19_FirstBinaryWins ==
    (stream_consumed /\ binary_at # {})
    => LET first == pending.stream.chunks[CHOOSE k \in binary_at : \A j \in binary_at : k <= j]
       IN /\ ret.val.v["image_base64"] = b64encode(first.data)
          /\ ret.val.v["mime_type"] =
                 JStr(IF first.mime_type # "" THEN first.mime_type ELSE "image/png")

\* C20: the stage returns only once every chunk has been read; with no
\* non-empty binary fragment in the sequence the result is an error that
\* carries the text fragments concatenated in arrival order, and with one
\* the result has status success.
C20_ExhaustThenReport ==
    /\ (phase = "returned" /\ invocations = (IF pending.from_pdf THEN 2 ELSE 1))
       => consumed = Len(pending.stream.chunks)
    /\ stream_consumed
       => /\ ret.kind = "return"
          /\ binary_at = {}
             => /\ ret.val.v["status"] = JStr("error")
                /\ dict_get(ret.val.v, "text_response", JNull)
                      = JStr(text_of(pending.stream.chunks))
          /\ binary_at # {} => ret.val.v["status"] = JStr("success")

\* a sequence of two text fragments and no binary fragment has been consumed
C20_TwoTextsNoImage ==
    /\ stream_consumed
    /\ binary_at = {}
    /\ ret.val.v["text_response"] = JStr("ab")

(***************************************************************************)
(* Claims about attachments, checked under SpecAttach                      *)
(***************************************************************************)
\* the media type the claim gives the leading bytes of data
claimed_mime_type(data) ==
    LET starts(sig) == Len(data) >= Len(sig) /\ SubSeq(data, 1, Len(sig)) = sig IN
    IF starts(<<37, 80, 68, 70>>) THEN "application/pdf"
    ELSE IF starts(<<137, 80, 78, 71, 13, 10, 26, 10>>) THEN "image/png"
    ELSE IF starts(<<255, 216>>) THEN "image/jpeg"
    ELSE IF starts(<<71, 73, 70, 56, 55, 97>>) \/ starts(<<71, 73, 70, 56, 57, 97>>)
    THEN "image/gif"
    ELSE "image/jpeg"

\* C26 (as stated): every attachment a stage sends for bytes that came
\* without a media type carries the media type of their leading bytes:
\* application/pdf for %PDF, image/png for the PNG header, image/jpeg for
\* FF D8, image/gif for GIF87a or GIF89a, image/jpeg for anything else.
C26_DetectedTypeSent ==
    \A r \in Slots :
        (req[r].ep \in {"parse_floor_plan", "analyze_damage"} /\ req[r].mime_type = "") =>
            \A i \in DOMAIN req[r].calls :
                req[r].calls[i].mime_type = claimed_mime_type(req[r].document_bytes)

====
